---------------------------- MODULE Spec2Model ----------------------------
(***************************************************************************)
(* Smart-vault program: the subscription lifecycle (open, bid, claim,      *)
(* report, close), the escrow bookkeeping and the ed25519 attestation      *)
(* check, modelled handler by handler from src/src/processor.rs and        *)
(* src/src/utils.rs.  One action per instruction handler.  For a handler h  *)
(* and a call c, h_err(c) is what h returns in the current state ("Ok" or  *)
(* the error); a call that returns an error changes nothing, the runtime    *)
(* reverting the transaction, and a call that succeeds is kept in `last`.  *)
(*                                                                         *)
(* u64 values are kept as their residue modulo 2^64 nearest to zero: a     *)
(* value v >= 0 stands for itself and v < 0 stands for 2^64 + v.  Wrapping  *)
(* add/sub are then the integer + and -, the bitwise complement !v is      *)
(* -1 - v, and the unsigned order is U64Lt.  The representation is exact   *)
(* for every value the model reaches.                                      *)
(***************************************************************************)
EXTENDS Integers, Sequences, FiniteSets, TLC

-----------------------------------------------------------------------------
(* Bounds of the model *)

MaxTime == 1300
StartTime == 7
MaxSubs == 1
MaxNonce == 4
MaxBids == 3
MaxApps == 1
MaxOpens == 2

(* Program constants *)

BID_WINDOW == 60
CLAIM_WINDOW == 300
REPORT_MIN == 600
REPORT_MAX == 900

-----------------------------------------------------------------------------
(* Identities *)

Users == {"u1", "u2"}
Workers == {"w1", "w2"}
\* the users who open subscriptions; the others only deposit
Subscribers == {"u1"}

\* Pubkey::default(), the all-zero key, which is also the system program id
SYSTEM_PROGRAM == "system"
\* the key the registry is initialised with, and another key
ORACLE == "oracle"
MALLORY == "mallory"
\* sysvar::instructions::ID and ed25519_program::ID
IX_ID == "sysvar_ix"
ED25519_ID == "ed25519"
OTHER_PROGRAM == "other_program"

\* seeds
VAULT_METADATA == "METADATA"
APP_COUNTER == "APP_COUNTER"
APP_STATE == "APP_STATE"
USER_STATE == "USER_STATE"
SUB_STATE == "SUB_STATE"
TREASURY_STATE == "TREASURY_STATE"
BIDDER_STATE == "BIDDER_STATE"

\* Pubkey::find_program_address: one address per seed list (injective).
Pda(tag, owner, index) == [tag |-> tag, owner |-> owner, index |-> index]

\* the two addresses derived from a tag alone
MetadataPda == "pda_METADATA"
TreasuryPda == "pda_TREASURY_STATE"
AppCounterPda == "pda_APP_COUNTER"
AppPda(id) == Pda(APP_STATE, "", id)
UserPda(u) == Pda(USER_STATE, u, 0)
BidderPda(w) == Pda(BIDDER_STATE, w, 0)
SubPda(u, id) == Pda(SUB_STATE, u, id)

SubIds == 0 .. (MaxSubs - 1)
SubAddrs == {SubPda(u, i) : u \in Subscribers, i \in SubIds}
\* an address at which Spec creates no subscription
VacantSub == SubPda("u2", 0)
\* every address a subscription account can have in any of the specifications
OpenIds == 0 .. (MaxOpens - 1)
SubSlots == {SubPda(u, i) : u \in Users, i \in OpenIds}

-----------------------------------------------------------------------------
(* u64 arithmetic on residues *)

\* u64::MAX = 2^64 - 1
U64_MAX == 0 - 1
U64Lt(a, b) == IF (a >= 0) = (b >= 0) THEN a < b ELSE a >= 0
U64Not(a) == (0 - 1) - a
\* a - b borrows, a + b carries out of 64 bits
SubUnderflows(a, b) == U64Lt(a, b)
AddOverflows(a, b) == (a < 0 /\ b < 0) \/ ((a < 0 \/ b < 0) /\ a + b >= 0)


-----------------------------------------------------------------------------
(* Bytes: Pubkey::to_bytes, u64::to_be_bytes, u16::to_le_bytes *)

KeyCode(k) ==
    CASE k = SYSTEM_PROGRAM -> 0
      [] k = "w1" -> 1
      [] k = "w2" -> 2
      [] k = "u1" -> 3
      [] k = "u2" -> 4
      [] k = ORACLE -> 7
      [] k = MALLORY -> 9
      [] OTHER -> 255

to_bytes(k) == [i \in 1 .. 32 |-> KeyCode(k)]

RECURSIVE ShiftRight8(_, _)
ShiftRight8(n, k) == IF k = 0 THEN n ELSE ShiftRight8(n \div 256, k - 1)

\* the same eight bytes, least significant first
to_be_bytes_reversed(n) == [i \in 1 .. 8 |-> ShiftRight8(n, i - 1) % 256]

\* big-endian: the most significant byte first
to_be_bytes(n) == [i \in 1 .. 8 |-> ShiftRight8(n, 8 - i) % 256]
\* little-endian u16
to_le_bytes(x) == <<x % 256, (x \div 256) % 256>>

U16_MAX == 65535

\* the keys of the model, and the key a 32-byte field holds
Keys == {SYSTEM_PROGRAM, "w1", "w2", "u1", "u2", ORACLE, MALLORY}
key_from_bytes(b) ==
    IF \E k \in Keys : to_bytes(k) = b
    THEN CHOOSE k \in Keys : to_bytes(k) = b
    ELSE "unknown"

\* borsh: u64 and u32 little-endian, bool as one byte, String as a u32 length
\* and the UTF-8 bytes
u64_le(n) == [i \in 1 .. 8 |-> ShiftRight8(n, i - 1) % 256]
u32_le(n) == [i \in 1 .. 4 |-> ShiftRight8(n, i - 1) % 256]
borsh_bool(b) == <<IF b THEN 1 ELSE 0>>
borsh_string(str) == u32_le(Len(str)) \o str

\* the value of little-endian bytes; the model holds values below 2^24
RECURSIVE from_le(_)
from_le(b) == IF b = <<>> THEN 0 ELSE b[1] + 256 * from_le(Tail(b))

\* String::from_utf8: the bytes from position i on are well-formed UTF-8, one
\* to four bytes per code point, without overlong forms, surrogates or code
\* points above U+10FFFF
Cont(b, i) == i <= Len(b) /\ b[i] \in 128 .. 191

RECURSIVE Utf8From(_, _)
Utf8From(b, i) ==
    IF i > Len(b) THEN TRUE
    ELSE IF b[i] < 128 THEN Utf8From(b, i + 1)
    ELSE IF b[i] \in 194 .. 223 THEN Cont(b, i + 1) /\ Utf8From(b, i + 2)
    ELSE IF b[i] \in 224 .. 239
    THEN /\ Cont(b, i + 1) /\ Cont(b, i + 2)
         /\ b[i] = 224 => b[i + 1] >= 160
         /\ b[i] = 237 => b[i + 1] <= 159
         /\ Utf8From(b, i + 3)
    ELSE IF b[i] \in 240 .. 244
    THEN /\ Cont(b, i + 1) /\ Cont(b, i + 2) /\ Cont(b, i + 3)
         /\ b[i] = 240 => b[i + 1] >= 144
         /\ b[i] = 244 => b[i + 1] <= 143
         /\ Utf8From(b, i + 4)
    ELSE FALSE

Utf8(b) == Utf8From(b, 1)

\* raw_message[..32] = key bytes, raw_message[32..] = nonce.to_be_bytes()
raw_message(key, nonce) == to_bytes(key) \o to_be_bytes(nonce)

\* data[a..b) of a 0-indexed byte slice held as a 1-indexed sequence
Slice(data, a, b) == SubSeq(data, a + 1, b)

\* The 64 signature bytes the holder of `key` produces over msg.  The scheme
\* itself is outside the program; all that matters here is that different
\* (key, msg) pairs give different bytes.
Sign(key, msg) ==
    [i \in 1 .. 64 |-> IF i = 1 THEN KeyCode(key)
                       ELSE IF i - 1 <= Len(msg) THEN msg[i - 1] ELSE 0]

\* The instruction data the ed25519 program expects for one signature:
\* header, then key, signature, message.
Ed25519Data(pubkey, sig, msg) ==
    <<1, 0>> \o to_le_bytes(16 + Len(pubkey)) \o to_le_bytes(U16_MAX)
        \o to_le_bytes(16) \o to_le_bytes(U16_MAX)
        \o to_le_bytes(16 + Len(pubkey) + Len(sig)) \o to_le_bytes(Len(msg))
        \o to_le_bytes(U16_MAX)
        \o pubkey \o sig \o msg

-----------------------------------------------------------------------------
(* utils.rs: the attestation check.  Each operator gives "Ok" or the error. *)

\* a comparison that leaves the message out
arguments_differ_unbound(data_pubkey, data_msg, data_sig, pubkey, msg, sig) ==
    data_pubkey # pubkey \/ data_sig # sig

\* the byte comparison of the three embedded arguments
arguments_differ(data_pubkey, data_msg, data_sig, pubkey, msg, sig) ==
    data_pubkey # pubkey \/ data_msg # msg \/ data_sig # sig

check_ed25519_data(data, pubkey, msg, sig) ==
    LET num_signatures == <<data[1]>>
        padding == <<data[2]>>
        signature_offset == Slice(data, 2, 4)
        signature_instruction_index == Slice(data, 4, 6)
        public_key_offset == Slice(data, 6, 8)
        public_key_instruction_index == Slice(data, 8, 10)
        message_data_offset == Slice(data, 10, 12)
        message_data_size == Slice(data, 12, 14)
        message_instruction_index == Slice(data, 14, 16)
        data_pubkey == Slice(data, 16, 16 + 32)
        data_sig == Slice(data, 48, 48 + 64)
        data_msg == Slice(data, 112, Len(data))
        exp_public_key_offset == 16
        exp_signature_offset == exp_public_key_offset + Len(pubkey)
        exp_message_data_offset == exp_signature_offset + Len(sig)
        exp_num_signatures == 1
        exp_message_data_size == Len(msg)
    IN  IF \/ num_signatures # <<exp_num_signatures>>
           \/ padding # <<0>>
           \/ signature_offset # to_le_bytes(exp_signature_offset)
           \/ signature_instruction_index # to_le_bytes(U16_MAX)
           \/ public_key_offset # to_le_bytes(exp_public_key_offset)
           \/ public_key_instruction_index # to_le_bytes(U16_MAX)
           \/ message_data_offset # to_le_bytes(exp_message_data_offset)
           \/ message_data_size # to_le_bytes(exp_message_data_size)
           \/ message_instruction_index # to_le_bytes(U16_MAX)
        THEN "SigVerificationFailed"
        ELSE IF arguments_differ(data_pubkey, data_msg, data_sig, pubkey, msg, sig)
        THEN "SigVerificationFailed"
        ELSE "Ok"

\* ix: [program_id, accounts (their number), data]
verify_ed25519_ix(ix, pubkey, msg, sig) ==
    IF \/ ix.program_id # ED25519_ID
       \/ ix.accounts # 0
       \/ Len(ix.data) # 16 + 64 + 32 + Len(msg)
    THEN "SigVerificationFailed"
    ELSE check_ed25519_data(ix.data, pubkey, msg, sig)

\* a check that looks at the introspection account before the oracle key
is_valid_consesues_sysvar_first(md, ix_sysvar, consensus, metadata, ix, raw_msg, signature) ==
    IF MetadataPda # metadata THEN "InvalidPDA"
    ELSE IF ~md.exists THEN "Panic"
    ELSE IF ~md.is_initialized THEN "UninitializedAccount"
    ELSE IF ix_sysvar # IX_ID THEN "UnsupportedSysvar"
    ELSE IF md.vault_public_key # consensus THEN "InvalidConsesues"
    ELSE verify_ed25519_ix(ix, to_bytes(consensus), raw_msg, signature)

\* md: the registry metadata record; ix: the first instruction of the batch
\* An account that was never created holds no data, and unwrap() on its failed
\* deserialisation panics.
is_valid_consesues(md, ix_sysvar, consensus, metadata, ix, raw_msg, signature) ==
    IF MetadataPda # metadata THEN "InvalidPDA"
    ELSE IF ~md.exists THEN "Panic"
    ELSE IF ~md.is_initialized THEN "UninitializedAccount"
    ELSE IF md.vault_public_key # consensus THEN "InvalidConsesues"
    ELSE IF ix_sysvar # IX_ID THEN "UnsupportedSysvar"
    ELSE verify_ed25519_ix(ix, to_bytes(consensus), raw_msg, signature)


-----------------------------------------------------------------------------
(* State *)

VARIABLES
    metadata,         \* VaultMetaDataState (attestation text left out)
    app_counter,      \* VaultAppCounterState
    apps,             \* app id -> VaultAppState
    users,            \* subscriber -> VaultUserState
    subs,             \* subscription address -> VaultUserSubscriptionState
    bidders,          \* worker -> VaultBidderState
    tokens,           \* token account (named by its owner) -> amount
    now,              \* Clock::get().unix_timestamp
    overflow_checks,  \* build profile: arithmetic overflow panics or wraps
    last,             \* the last call that succeeded
    deposited,        \* history: subscriber -> sum of successful deposits
    charged,          \* history: subscriber -> sum of prices of paid settlements
    earned,           \* history: worker -> sum of payouts received
    calls,            \* history: worker -> successful Bid/ClaimBid/ReportWork calls
    used,             \* history: worker -> nonces of attestations that succeeded
    low_bid,          \* history: subscription -> min of max_rent and all bids
    bids,             \* history: subscription -> number of successful bids
    first_best,       \* history: subscription -> earliest bidder at low_bid
    vin,              \* attestation check in isolation: its input
    vout              \* attestation check in isolation: its result

registry == <<metadata, app_counter, apps>>
accounts == <<metadata, app_counter, apps, users, subs, bidders, tokens>>
money == <<deposited, charged, earned>>
auth == <<calls, used>>
auction == <<low_bid, bids, first_best>>
history == <<deposited, charged, earned, calls, used, low_bid, bids,
             first_best>>
env == <<now, overflow_checks, vin, vout>>
vars == <<metadata, app_counter, apps, users, subs, bidders, tokens, now,
          overflow_checks, last, deposited, charged, earned, calls, used,
          low_bid, bids, first_best, vin, vout>>

AppIds == 0 .. (MaxApps - 1)
TokenOwners == Users \cup Workers \cup {TreasuryPda}

\* a zero-filled account, as create_account leaves it
ZeroSub ==
    [id |-> 0, is_initialized |-> FALSE, closed |-> FALSE, app_id |-> 0,
     max_rent |-> 0, is_assigned |-> FALSE, executor |-> SYSTEM_PROGRAM,
     bid_endtime |-> 0, rent |-> 0, nonce |-> 0, last_report_time |-> 0,
     restart |-> FALSE]
ZeroUser == [is_initialized |-> FALSE, count |-> 0, balance |-> 0]
ZeroBidder == [is_initialized |-> FALSE, nonce |-> 0]
ZeroApp == [is_initialized |-> FALSE, ipfs_hash |-> <<>>, rent |-> 0,
            creator_ata |-> SYSTEM_PROGRAM]

\* the account data borsh writes for a VaultUserSubscriptionState (params is
\* the parameter hash) and for a VaultAppState
sub_to_bytes(sub, params) ==
    u64_le(sub.id) \o borsh_bool(sub.is_initialized) \o borsh_bool(sub.closed)
        \o u64_le(sub.app_id) \o borsh_string(params) \o u64_le(sub.max_rent)
        \o borsh_bool(sub.is_assigned) \o to_bytes(sub.executor)
        \o u64_le(sub.bid_endtime) \o u64_le(sub.rent) \o u64_le(sub.nonce)
        \o u64_le(sub.last_report_time) \o borsh_bool(sub.restart)

app_to_bytes(app) ==
    borsh_bool(app.is_initialized) \o borsh_string(app.ipfs_hash)
        \o u64_le(app.rent) \o to_bytes(app.creator_ata)

\* the u32 length in front of a String, whose four bytes follow the first at
\* bytes; a length of 2^16 or more is beyond the end of every account
str_len(data, at) ==
    IF data[at + 3] = 0 /\ data[at + 4] = 0
    THEN from_le(Slice(data, at, at + 2))
    ELSE 65536

\* try_from_slice_unchecked::<VaultUserSubscriptionState>: the fields are read
\* from the front of the data and bytes after the last field are ignored; it
\* fails when the data ends early, a bool is not 0 or 1 or the string is not
\* UTF-8
sub_from_slice(data) ==
    LET n == Len(data)
        p == IF n >= 22 THEN str_len(data, 18) ELSE 0
    IN  IF \/ n < 96 + p
           \/ data[9] \notin {0, 1} \/ data[10] \notin {0, 1}
           \/ data[31 + p] \notin {0, 1} \/ data[96 + p] \notin {0, 1}
           \/ ~Utf8(Slice(data, 22, 22 + p))
        THEN [ok |-> FALSE]
        ELSE [ok |-> TRUE,
              params |-> Slice(data, 22, 22 + p),
              sub |-> [id |-> from_le(Slice(data, 0, 8)),
                       is_initialized |-> data[9] = 1,
                       closed |-> data[10] = 1,
                       app_id |-> from_le(Slice(data, 10, 18)),
                       max_rent |-> from_le(Slice(data, 22 + p, 30 + p)),
                       is_assigned |-> data[31 + p] = 1,
                       executor |-> key_from_bytes(Slice(data, 31 + p, 63 + p)),
                       bid_endtime |-> from_le(Slice(data, 63 + p, 71 + p)),
                       rent |-> from_le(Slice(data, 71 + p, 79 + p)),
                       nonce |-> from_le(Slice(data, 79 + p, 87 + p)),
                       last_report_time |-> from_le(Slice(data, 87 + p, 95 + p)),
                       restart |-> data[96 + p] = 1]]

\* try_from_slice_unchecked::<VaultAppState>: it fails when the data ends
\* early, the bool is not 0 or 1 or the string is not UTF-8; bytes after the
\* last field are ignored
app_from_slice(data) ==
    LET n == Len(data)
        len == IF n >= 5 THEN str_len(data, 1) ELSE 0
    IN  IF \/ n < 45 + len
           \/ data[1] \notin {0, 1}
           \/ ~Utf8(Slice(data, 5, 5 + len))
        THEN [ok |-> FALSE]
        ELSE [ok |-> TRUE,
              app |-> [is_initialized |-> data[1] = 1,
                       ipfs_hash |-> Slice(data, 5, 5 + len),
                       rent |-> from_le(Slice(data, 5 + len, 13 + len)),
                       creator_ata |-> key_from_bytes(Slice(data, 13 + len, 45 + len))]]

\* serialize(&mut &mut data[..]): the bytes go to the front of the data
overwrite(data, bytes) == bytes \o SubSeq(data, Len(bytes) + 1, Len(data))

NoSub == Pda("", "", 0)
NoCall == [op |-> "none", who |-> "", sub |-> NoSub, amount |-> 0, att |-> 0,
           slot |-> ""]
Result(op, who, sub, amount, att, slot) ==
    [op |-> op, who |-> who, sub |-> sub, amount |-> amount, att |-> att,
     slot |-> slot]

\* tokens each wallet holds when the model starts
Wallet == 100

NoInput == [consensus |-> "", metadata |-> "", ix_sysvar |-> "", bidder |-> "",
            nonce |-> 0, signature |-> <<>>,
            ix |-> [program_id |-> "", accounts |-> 0, data |-> <<>>],
            md |-> [exists |-> FALSE, is_initialized |-> FALSE,
                    vault_public_key |-> SYSTEM_PROGRAM]]

Init ==
    /\ metadata = [exists |-> FALSE, is_initialized |-> FALSE,
                   vault_public_key |-> SYSTEM_PROGRAM]
    /\ app_counter = [exists |-> FALSE, is_initialized |-> FALSE, counter |-> 0]
    /\ apps = [i \in AppIds |-> ZeroApp]
    /\ users = [u \in Users |-> ZeroUser]
    /\ subs = [a \in SubSlots |-> ZeroSub]
    /\ bidders = [w \in Workers |-> ZeroBidder]
    /\ tokens = [a \in TokenOwners |-> IF a \in Users THEN Wallet ELSE 0]
    /\ now = StartTime
    /\ overflow_checks \in BOOLEAN
    /\ last = NoCall
    /\ deposited = [u \in Users |-> 0]
    /\ charged = [u \in Users |-> 0]
    /\ earned = [w \in Workers |-> 0]
    /\ calls = [w \in Workers |-> 0]
    /\ used = [w \in Workers |-> {}]
    /\ low_bid = [a \in SubSlots |-> 0]
    /\ bids = [a \in SubSlots |-> 0]
    /\ first_best = [a \in SubSlots |-> SYSTEM_PROGRAM]
    /\ vin = NoInput
    /\ vout = "none"

\* a call that returns an error: the runtime reverts the transaction
Fail == UNCHANGED vars

\* program_treasury.owner == program_id: init creates the treasury account
\* together with the metadata and the app counter
TreasuryOwned(a) ==
    a \in {TreasuryPda, MetadataPda, AppCounterPda} /\ metadata.exists

\* an app account exists once add_app has created it; its data either decode
\* as a VaultAppState (the four fields) or are kept as they are (raw)
AppRaw(app) == "raw" \in DOMAIN app
AppExists(app) == AppRaw(app) \/ app.is_initialized
app_data(app) == IF AppRaw(app) THEN app.raw ELSE app_to_bytes(app)

\* account.owner == program_id for an address derived with a key or an id: the
\* program owns the accounts it has created, and each of them sits at the
\* address of its own seeds; an address where nothing was created belongs to
\* the system program
ProgramOwned(a) ==
    CASE a.tag = USER_STATE ->
           a.owner \in Users /\ a.index = 0 /\ users[a.owner].is_initialized
      [] a.tag = BIDDER_STATE ->
           a.owner \in Workers /\ a.index = 0 /\ bidders[a.owner].is_initialized
      [] a.tag = SUB_STATE -> a \in SubSlots /\ subs[a].is_initialized
      [] a.tag = APP_STATE ->
           a.owner = "" /\ a.index \in AppIds /\ AppExists(apps[a.index])
      [] OTHER -> FALSE

\* a test that accepts every token account
is_ata_owner_any(owner, ata) == ata \in TokenOwners

\* utils.rs is_ata_owner: the account unpacks as a token account of that owner
is_ata_owner(owner, ata) == ata \in TokenOwners /\ ata = owner

-----------------------------------------------------------------------------
(* processor.rs init: c = [initializer_signer, pda_account, app_counter,      *)
(* program_treasury, system_program, vault_public_key]                       *)

init_err(c) ==
    IF ~c.initializer_signer THEN "MissingRequiredSignature"
    ELSE IF MetadataPda # c.pda_account THEN "InvalidPDA"
    ELSE IF AppCounterPda # c.app_counter THEN "InvalidPDA"
    ELSE IF TreasuryPda # c.program_treasury THEN "InvalidPDA"
    ELSE IF c.system_program # SYSTEM_PROGRAM THEN "MissingAccount"
    \* create_account on an address that is already in use
    ELSE IF metadata.exists THEN "AccountAlreadyInUse"
    ELSE "Ok"

init(c) ==
    IF init_err(c) # "Ok" THEN Fail
    ELSE /\ metadata' = [exists |-> TRUE, is_initialized |-> TRUE,
                         vault_public_key |-> c.vault_public_key]
         /\ app_counter' = [exists |-> TRUE, is_initialized |-> TRUE,
                            counter |-> 0]
         /\ last' = Result("Init", "", NoSub, 0, 0, "")
         /\ UNCHANGED <<apps, users, subs, bidders, tokens, env, history>>

InitCalls ==
    LET ok == [initializer_signer |-> TRUE, pda_account |-> MetadataPda,
               app_counter |-> AppCounterPda, program_treasury |-> TreasuryPda,
               system_program |-> SYSTEM_PROGRAM, vault_public_key |-> ORACLE]
    IN  {ok, [ok EXCEPT !.initializer_signer = FALSE],
         [ok EXCEPT !.pda_account = TreasuryPda]}

-----------------------------------------------------------------------------
(* processor.rs add_app: c = [creator, creator_signer, creator_ata,          *)
(* app_counter, app_state, system_program, ipfs_hash, rent_amount]           *)

add_app_err(c) ==
    IF ~c.creator_signer THEN "MissingRequiredSignature"
    ELSE IF ~is_ata_owner(c.creator, c.creator_ata) THEN "InvalidAccountOwner"
    ELSE IF AppCounterPda # c.app_counter THEN "InvalidPDA"
    ELSE IF ~app_counter.exists THEN "Panic"
    ELSE IF ~app_counter.is_initialized THEN "AccountAlreadyInitialized"
    ELSE IF AppPda(app_counter.counter) # c.app_state THEN "InvalidPDA"
    ELSE IF c.system_program # SYSTEM_PROGRAM THEN "MissingAccount"
    ELSE IF AppExists(apps[app_counter.counter]) THEN "AccountAlreadyInUse"
    ELSE "Ok"

add_app(c) ==
    /\ app_counter.counter < MaxApps
    /\ IF add_app_err(c) # "Ok" THEN Fail
       ELSE /\ apps' = [apps EXCEPT ![app_counter.counter] =
                          [is_initialized |-> TRUE, ipfs_hash |-> c.ipfs_hash,
                           rent |-> c.rent_amount,
                           creator_ata |-> c.creator_ata]]
            /\ app_counter' = [app_counter EXCEPT !.counter = @ + 1]
            /\ last' = Result("AddApp", c.creator, NoSub, c.rent_amount, 0, "")
            /\ UNCHANGED <<metadata, users, subs, bidders, tokens, env, history>>

\* the content pointer "Qm"
PlainHash == <<81, 109>>

\* the calls that register content h
AddAppCallsOf(h) ==
    LET ok == [creator |-> "u1", creator_signer |-> TRUE, creator_ata |-> "u1",
               app_counter |-> AppCounterPda,
               app_state |-> AppPda(app_counter.counter),
               system_program |-> SYSTEM_PROGRAM, ipfs_hash |-> h,
               rent_amount |-> 100]
    IN  {ok, [ok EXCEPT !.creator_ata = "u2"],
         [ok EXCEPT !.app_state = AppPda(app_counter.counter + 1)]}

AddAppCalls == AddAppCallsOf(PlainHash)

-----------------------------------------------------------------------------
(* processor.rs topup: c = [user, user_signer, user_ata, user_state,         *)
(* program_treasury, program_ata, system_program, amount]                    *)

topup_err(c) ==
    IF ~c.user_signer THEN "MissingRequiredSignature"
    ELSE IF ~is_ata_owner(c.user, c.user_ata) THEN "InvalidAccountOwner"
    ELSE IF ~TreasuryOwned(c.program_treasury) THEN "InvalidAccountOwner"
    ELSE IF TreasuryPda # c.program_treasury THEN "InvalidPDA"
    ELSE IF ~is_ata_owner(c.program_treasury, c.program_ata)
    THEN "InvalidAccountOwner"
    \* amount <= 0 on a u64
    ELSE IF c.amount = 0 THEN "LessThenMinimumTopupAmount"
    ELSE IF U64Lt(tokens[c.user_ata], c.amount) THEN "InsufficientFunds"
    ELSE IF UserPda(c.user) # c.user_state THEN "InvalidPDA"
    ELSE IF ~users[c.user].is_initialized /\ c.system_program # SYSTEM_PROGRAM
    THEN "MissingAccount"
    ELSE IF AddOverflows(users[c.user].balance, c.amount) /\ overflow_checks
    THEN "Panic"
    ELSE "Ok"

\* user_state_data.balance += amount; user_state_data.is_initialized = true
topup_user(user_state, amount) ==
    [user_state EXCEPT !.balance = @ + amount, !.is_initialized = TRUE]

topup(c) ==
    IF topup_err(c) # "Ok" THEN Fail
    ELSE /\ tokens' = [tokens EXCEPT ![c.user_ata] = @ - c.amount,
                                     ![c.program_ata] = @ + c.amount]
         /\ users' = [users EXCEPT ![c.user] = topup_user(@, c.amount)]
         /\ deposited' = [deposited EXCEPT ![c.user] = @ + c.amount]
         /\ last' = Result("TopUp", c.user, NoSub, c.amount, 0, "")
         /\ UNCHANGED <<registry, subs, bidders, env, charged, earned, auth,
                        auction>>

TopUpAmounts == {0, 100, U64_MAX}

TopUpCalls ==
    UNION {
      LET ok == [user |-> u, user_signer |-> TRUE, user_ata |-> u,
                 user_state |-> UserPda(u), program_treasury |-> TreasuryPda,
                 program_ata |-> TreasuryPda, system_program |-> SYSTEM_PROGRAM,
                 amount |-> a]
      IN  IF a = 0 THEN {ok}
          ELSE {ok, [ok EXCEPT !.user_signer = FALSE],
                [ok EXCEPT !.user_state = UserPda(CHOOSE v \in Users : v # u)]}
      : u \in Users, a \in TopUpAmounts }

-----------------------------------------------------------------------------
(* processor.rs start_subscription: c = [subscriber, subscriber_signer,      *)
(* subscriber_state, subscriber_sub_state, app_state, system_program,        *)
(* max_rent, app_id]; the parameter hash is stored and never read            *)

start_subscription_err(c) ==
    IF ~c.subscriber_signer THEN "MissingRequiredSignature"
    ELSE IF ~ProgramOwned(c.app_state) THEN "InvalidAccountOwner"
    ELSE IF ~ProgramOwned(c.subscriber_state) THEN "InvalidAccountOwner"
    ELSE IF AppPda(c.app_id) # c.app_state THEN "InvalidPDA"
    ELSE IF AppRaw(apps[c.app_id]) THEN "Panic"
    ELSE IF ~apps[c.app_id].is_initialized THEN "UninitializedAccount"
    ELSE IF UserPda(c.subscriber) # c.subscriber_state THEN "InvalidPDA"
    ELSE IF ~users[c.subscriber].is_initialized THEN "UninitializedAccount"
    ELSE IF U64Lt(users[c.subscriber].balance, c.max_rent)
    THEN "InefficientBalance"
    ELSE IF SubPda(c.subscriber, users[c.subscriber].count) # c.subscriber_sub_state
    THEN "InvalidPDA"
    ELSE IF c.system_program # SYSTEM_PROGRAM THEN "MissingAccount"
    ELSE IF subs[c.subscriber_sub_state].is_initialized
    THEN "AccountAlreadyInUse"
    ELSE "Ok"

\* an opening that leaves the current price at zero
new_sub_unpriced(count, app_id, max_rent, cur_time) ==
    [ZeroSub EXCEPT !.id = count, !.app_id = app_id, !.is_initialized = TRUE,
                    !.max_rent = max_rent,
                    !.bid_endtime = cur_time + BID_WINDOW]

\* the fields start_subscription sets on the zero-filled account
new_sub(count, app_id, max_rent, cur_time) ==
    [ZeroSub EXCEPT !.id = count, !.app_id = app_id, !.is_initialized = TRUE,
                    !.max_rent = max_rent, !.rent = max_rent,
                    !.bid_endtime = cur_time + BID_WINDOW]

start_subscription_step(c) ==
    LET a == c.subscriber_sub_state
    IN  /\ now + BID_WINDOW <= MaxTime
        /\ IF start_subscription_err(c) # "Ok" THEN Fail
           ELSE /\ subs' = [subs EXCEPT ![a] =
                              new_sub(users[c.subscriber].count, c.app_id,
                                      c.max_rent, now)]
                /\ users' = [users EXCEPT ![c.subscriber].count = @ + 1]
                /\ low_bid' = [low_bid EXCEPT ![a] = c.max_rent]
                /\ first_best' = [first_best EXCEPT ![a] = SYSTEM_PROGRAM]
                /\ last' = Result("StartSubscription", c.subscriber, a,
                                  c.max_rent, 0, "")
                /\ UNCHANGED <<registry, bidders, tokens, env, money, auth, bids>>

\* the handler, for subscribers with fewer than MaxSubs subscriptions
start_subscription(c) ==
    users[c.subscriber].count < MaxSubs /\ start_subscription_step(c)

MaxRents == {100, 150}

\* the calls of the subscribers in S
StartSubscriptionCallsOf(S) ==
    UNION {
      LET ok == [subscriber |-> u, subscriber_signer |-> TRUE,
                 subscriber_state |-> UserPda(u),
                 subscriber_sub_state |-> SubPda(u, users[u].count),
                 app_state |-> AppPda(0), system_program |-> SYSTEM_PROGRAM,
                 max_rent |-> m, app_id |-> 0]
      IN  IF m # 100 THEN {ok}
          ELSE {ok, [ok EXCEPT !.subscriber_signer = FALSE],
                [ok EXCEPT !.subscriber_state =
                             UserPda(CHOOSE v \in Users : v # u)],
                [ok EXCEPT !.subscriber_state = BidderPda("w1")],
                [ok EXCEPT !.app_state = UserPda(u)]}
      : u \in S, m \in MaxRents }

StartSubscriptionCalls == StartSubscriptionCallsOf(Subscribers)

-----------------------------------------------------------------------------
(* What callers put into the attestation slots: the first instruction of the  *)
(* batch and the signature argument.                                          *)

Attestation(signer, worker, nonce) ==
    LET m == raw_message(worker, nonce)
        sg == Sign(signer, m)
    IN  [signature |-> sg,
         ix |-> [program_id |-> ED25519_ID, accounts |-> 0,
                 data |-> Ed25519Data(to_bytes(signer), sg, m)]]

\* the attestations callers can present, computed once
Attestations ==
    [signer \in {ORACLE, MALLORY}, worker \in Workers, nonce \in 0 .. MaxNonce
        |-> Attestation(signer, worker, nonce)]

\* ok: a call by worker w whose attestation is the oracle's over w || n, n
\* being w's stored nonce.  The variants: another consensus account, and the
\* oracle's attestation over each nonce below n.  att is the nonce the
\* presented attestation covers.
AuthVariants(ok, w, n) ==
    {ok, [ok EXCEPT !.consensus = MALLORY]}
        \cup {[ok EXCEPT !.signature = Attestations[ORACLE, w, m].signature,
                         !.ix = Attestations[ORACLE, w, m].ix,
                         !.att = m] : m \in 0 .. (n - 1)}

\* the history of a successful authenticated call by w
Authenticated(w, att) ==
    /\ calls' = [calls EXCEPT ![w] = @ + 1]
    /\ used' = [used EXCEPT ![w] = @ \cup {att}]

\* a handler that forgets the increment
bump_nonce_skipped(bidder_state) == bidder_state

\* bid_winner_state_data.nonce += 1
bump_nonce(bidder_state) == [bidder_state EXCEPT !.nonce = @ + 1]

-----------------------------------------------------------------------------
(* processor.rs bid: c = [consensus, bidder, bidder_signer, bidder_state,     *)
(* sub_state, metadata, system_program, ix_sysvar, signature, ix,            *)
(* bid_amount]                                                               *)

\* a window that includes its end
bid_window_open_inclusive(cur_time, bid_endtime) == cur_time <= bid_endtime

\* cur_time < sub_state_data.bid_endtime
bid_window_open(cur_time, bid_endtime) == cur_time < bid_endtime

\* owned: sub_state.owner == program_id; acct: what try_from_slice_unchecked
\* gives for the data of the account in the subscription slot
bid_err_with(c, owned, acct) ==
    IF ~c.bidder_signer THEN "MissingRequiredSignature"
    ELSE IF ~owned THEN "InvalidAccountOwner"
    ELSE IF BidderPda(c.bidder) # c.bidder_state THEN "InvalidPDA"
    \* the bidder state is created through the system program on first use
    ELSE IF ~bidders[c.bidder].is_initialized /\ c.system_program # SYSTEM_PROGRAM
    THEN "MissingAccount"
    ELSE LET auth_err == is_valid_consesues(metadata, c.ix_sysvar, c.consensus,
                             c.metadata, c.ix,
                             raw_message(c.bidder, bidders[c.bidder].nonce),
                             c.signature)
         IN  IF auth_err # "Ok" THEN auth_err
             ELSE IF ~acct.ok THEN "Panic"
             ELSE IF ~acct.sub.is_initialized THEN "UninitializedAccount"
             ELSE IF ~bid_window_open(now, acct.sub.bid_endtime)
             THEN "BidTimeExpired"
             ELSE "Ok"

\* a subscription account: created by start_subscription, which also
\* initialises it
bid_err(c) ==
    bid_err_with(c, ProgramOwned(c.sub_state),
                 [ok |-> TRUE, sub |-> subs[c.sub_state]])

\* an acceptance rule with the comparison turned round
bid_sub_raising(sub, bidder, system_program, bid_amount) ==
    IF U64Lt(sub.rent, bid_amount)
    THEN [sub EXCEPT !.executor = bidder, !.rent = bid_amount]
    ELSE IF bid_amount = sub.rent /\ sub.executor = system_program
    THEN [sub EXCEPT !.executor = bidder]
    ELSE sub

\* the subscription as an accepted bid leaves it; system_program is the key of
\* the account the caller put in that slot
bid_sub(sub, bidder, system_program, bid_amount) ==
    IF U64Lt(bid_amount, sub.rent)
    THEN [sub EXCEPT !.executor = bidder, !.rent = bid_amount]
    ELSE IF bid_amount = sub.rent /\ sub.executor = system_program
    THEN [sub EXCEPT !.executor = bidder]
    ELSE sub

\* bidder_state_data.is_initialized = true; bidder_state_data.nonce += 1
bid_bidder(bidder_state) ==
    [bidder_state EXCEPT !.is_initialized = TRUE, !.nonce = @ + 1]

bid(c) ==
    LET a == c.sub_state
        w == c.bidder
    IN  /\ bidders[w].nonce < MaxNonce
        /\ bids[a] < MaxBids
        /\ IF bid_err(c) # "Ok" THEN Fail
           ELSE /\ subs' = [subs EXCEPT ![a] =
                              bid_sub(@, w, c.system_program, c.bid_amount)]
                /\ bidders' = [bidders EXCEPT ![w] = bid_bidder(@)]
                /\ Authenticated(w, c.att)
                /\ bids' = [bids EXCEPT ![a] = @ + 1]
                /\ IF U64Lt(c.bid_amount, low_bid[a])
                   THEN /\ low_bid' = [low_bid EXCEPT ![a] = c.bid_amount]
                        /\ first_best' = [first_best EXCEPT ![a] = w]
                   ELSE IF c.bid_amount = low_bid[a]
                           /\ first_best[a] = SYSTEM_PROGRAM
                   THEN /\ first_best' = [first_best EXCEPT ![a] = w]
                        /\ UNCHANGED low_bid
                   ELSE UNCHANGED <<low_bid, first_best>>
                /\ last' = Result("Bid", w, a, c.bid_amount, c.att,
                                  c.system_program)
                /\ UNCHANGED <<registry, users, tokens, env, money>>

BidAmounts == {90, 100, 110, U64_MAX}

\* the calls on the subscriptions at the addresses in A
BidCallsOn(A) ==
    UNION {
      LET n == bidders[w].nonce
          t == Attestations[ORACLE, w, n]
          ok == [consensus |-> ORACLE, bidder |-> w, bidder_signer |-> TRUE,
                 bidder_state |-> BidderPda(w), sub_state |-> a,
                 metadata |-> MetadataPda, system_program |-> SYSTEM_PROGRAM,
                 ix_sysvar |-> IX_ID, signature |-> t.signature, ix |-> t.ix,
                 bid_amount |-> 90, att |-> n]
      IN  AuthVariants(ok, w, n)
          \cup {[ok EXCEPT !.bid_amount = b, !.system_program = sp] :
                  b \in BidAmounts, sp \in {SYSTEM_PROGRAM} \cup Workers}
          \cup {[ok EXCEPT !.sub_state = VacantSub]}
      : w \in Workers, a \in A }

BidCalls == BidCallsOn(SubAddrs)

-----------------------------------------------------------------------------
(* processor.rs claimbid: c = [consensus, bid_winner, bid_winner_signer,      *)
(* bid_winner_state, sub_state, metadata, ix_sysvar, signature, ix]          *)

\* a closed test that is never true
sub_closed_ignored(sub) == FALSE

\* sub_state_data.closed, as claimbid and report_work test it
sub_closed(sub) == sub.closed

\* a claim window that excludes its last instant
claim_window_exclusive(cur_time, bid_endtime) ==
    IF cur_time >= bid_endtime + CLAIM_WINDOW THEN "BidClaimExpired"
    ELSE IF cur_time < bid_endtime THEN "ReportedEarly"
    ELSE "Ok"

\* a claim window without its deadline
claim_window_unbounded(cur_time, bid_endtime) ==
    IF cur_time < bid_endtime THEN "ReportedEarly" ELSE "Ok"

\* the two clock tests of claimbid, in their order
claim_window(cur_time, bid_endtime) ==
    IF cur_time > bid_endtime + CLAIM_WINDOW THEN "BidClaimExpired"
    ELSE IF cur_time < bid_endtime THEN "ReportedEarly"
    ELSE "Ok"

claimbid_err_with(c, owned, acct) ==
    IF ~c.bid_winner_signer THEN "MissingRequiredSignature"
    ELSE IF ~ProgramOwned(c.bid_winner_state)
    THEN "InvalidAccountOwner"
    ELSE IF ~owned THEN "InvalidAccountOwner"
    ELSE IF BidderPda(c.bid_winner) # c.bid_winner_state THEN "InvalidPDA"
    ELSE IF ~bidders[c.bid_winner].is_initialized THEN "UninitializedAccount"
    ELSE LET auth_err == is_valid_consesues(metadata, c.ix_sysvar, c.consensus,
                             c.metadata, c.ix,
                             raw_message(c.bid_winner,
                                         bidders[c.bid_winner].nonce),
                             c.signature)
         IN  IF auth_err # "Ok" THEN auth_err
             ELSE IF ~acct.ok THEN "Panic"
             ELSE IF ~acct.sub.is_initialized THEN "UninitializedAccount"
             ELSE IF sub_closed(acct.sub) THEN "SubScriptionClosed"
             ELSE IF acct.sub.is_assigned THEN "BidAlreadyClaimed"
             ELSE IF acct.sub.executor # c.bid_winner THEN "UnAuthToClaimBid"
             ELSE claim_window(now, acct.sub.bid_endtime)

claimbid_err(c) ==
    claimbid_err_with(c, ProgramOwned(c.sub_state),
                      [ok |-> TRUE, sub |-> subs[c.sub_state]])

\* sub_state_data.is_assigned = true; sub_state_data.last_report_time = cur_time
claim_sub(sub, cur_time) ==
    [sub EXCEPT !.is_assigned = TRUE, !.last_report_time = cur_time]

claimbid(c) ==
    LET a == c.sub_state
        w == c.bid_winner
    IN  /\ bidders[w].nonce < MaxNonce
        /\ IF claimbid_err(c) # "Ok" THEN Fail
           ELSE /\ bidders' = [bidders EXCEPT ![w] = bump_nonce(@)]
                /\ subs' = [subs EXCEPT ![a] = claim_sub(@, now)]
                /\ Authenticated(w, c.att)
                /\ last' = Result("ClaimBid", w, a, 0, c.att, "")
                /\ UNCHANGED <<registry, users, tokens, env, money, auction>>

\* the calls on the subscriptions at the addresses in A
ClaimBidCallsOn(A) ==
    UNION {
      LET n == bidders[w].nonce
          t == Attestations[ORACLE, w, n]
          ok == [consensus |-> ORACLE, bid_winner |-> w,
                 bid_winner_signer |-> TRUE, bid_winner_state |-> BidderPda(w),
                 sub_state |-> a, metadata |-> MetadataPda, ix_sysvar |-> IX_ID,
                 signature |-> t.signature, ix |-> t.ix, att |-> n]
      IN  AuthVariants(ok, w, n)
          \cup {[ok EXCEPT !.bid_winner_state = UserPda("u1")]}
      : w \in Workers, a \in A }

ClaimBidCalls == ClaimBidCallsOn(SubAddrs)

-----------------------------------------------------------------------------
(* processor.rs report_work: c = [consensus, bid_winner, bid_winner_signer,   *)
(* bid_winner_state, bid_winner_ata, sub_state, user, user_state,            *)
(* program_treasury, program_ata, metadata, ix_sysvar, signature, ix, nonce] *)

\* a restart test that is never true
restart_phase_ignored(sub) == FALSE

\* sub_state_data.restart, as report_work tests it before reading the clock
restart_phase(sub) == sub.restart

\* the checks before the clock is read
report_work_guard(c) ==
    IF ~c.bid_winner_signer THEN "MissingRequiredSignature"
    ELSE IF ~ProgramOwned(c.bid_winner_state)
    THEN "InvalidAccountOwner"
    ELSE IF ~ProgramOwned(c.sub_state) THEN "InvalidAccountOwner"
    ELSE IF ~ProgramOwned(c.user_state) THEN "InvalidAccountOwner"
    ELSE IF ~is_ata_owner(c.bid_winner, c.bid_winner_ata)
    THEN "InvalidAccountOwner"
    ELSE IF ~TreasuryOwned(c.program_treasury) THEN "InvalidAccountOwner"
    ELSE IF TreasuryPda # c.program_treasury THEN "InvalidPDA"
    ELSE IF ~is_ata_owner(c.program_treasury, c.program_ata)
    THEN "InvalidAccountOwner"
    ELSE IF BidderPda(c.bid_winner) # c.bid_winner_state THEN "InvalidPDA"
    ELSE IF UserPda(c.user) # c.user_state THEN "InvalidPDA"
    ELSE IF ~users[c.user].is_initialized THEN "UninitializedAccount"
    ELSE IF ~bidders[c.bid_winner].is_initialized THEN "UninitializedAccount"
    ELSE LET auth_err == is_valid_consesues(metadata, c.ix_sysvar, c.consensus,
                             c.metadata, c.ix,
                             raw_message(c.bid_winner,
                                         bidders[c.bid_winner].nonce),
                             c.signature)
             sub == subs[c.sub_state]
         IN  IF auth_err # "Ok" THEN auth_err
             ELSE IF ~sub.is_initialized THEN "UninitializedAccount"
             ELSE IF SubPda(c.user, sub.id) # c.sub_state THEN "InvalidPDA"
             ELSE IF sub_closed(sub) THEN "SubScriptionClosed"
             ELSE IF ~sub.is_assigned THEN "BidAlreadyClaimed"
             ELSE IF sub.executor # c.bid_winner THEN "UnAuthToClaimBid"
             ELSE IF restart_phase(sub) THEN "RestartPhase"
             ELSE "Ok"

\* `!user_state_data.balance < sub_state_data.rent`: the unary ! binds tighter
\* than <, and on a u64 it is the bitwise complement
insolvent(balance, rent) == U64Lt(U64Not(balance), rent)

\* a window without its deadline
report_window_unbounded(cur_time, last_report_time) ==
    IF cur_time < last_report_time + REPORT_MIN THEN "early" ELSE "in"

\* a window without its earliest instant
report_window_from_start(cur_time, last_report_time) ==
    IF cur_time > last_report_time + REPORT_MAX THEN "late" ELSE "in"

\* where the clock stands against the last report: past the deadline, before
\* the earliest instant, or between the two
report_window(cur_time, last_report_time) ==
    IF cur_time > last_report_time + REPORT_MAX THEN "late"
    ELSE IF cur_time < last_report_time + REPORT_MIN THEN "early"
    ELSE "in"

\* a test that only objects to a nonce already used
nonce_mismatch_below(stored, supplied) == supplied < stored

\* sub_state_data.nonce != nonce
nonce_mismatch(stored, supplied) == stored # supplied

\* a settlement that pays without counting
settle_uncounted(sub, balance, treasury, nonce, cur_time, checks) ==
    LET late == report_window(cur_time, sub.last_report_time) = "late"
        early == report_window(cur_time, sub.last_report_time) = "early"
        s1 == [sub EXCEPT !.restart = @ \/ late
                                        \/ nonce_mismatch(sub.nonce, nonce)]
        same == [err |-> "Ok", sub |-> s1, balance |-> balance, pay |-> 0]
    IN  IF early THEN [same EXCEPT !.err = "ReportedEarly"]
        ELSE IF insolvent(balance, s1.rent)
        THEN [same EXCEPT !.sub.closed = TRUE]
        ELSE IF ~s1.restart
        THEN (IF U64Lt(treasury, s1.rent)
              THEN [same EXCEPT !.err = "InsufficientFunds"]
              ELSE IF SubUnderflows(balance, s1.rent) /\ checks
              THEN [same EXCEPT !.err = "Panic"]
              ELSE [err |-> "Ok",
                    sub |-> [s1 EXCEPT !.last_report_time = cur_time],
                    balance |-> balance - s1.rent,
                    pay |-> s1.rent])
        ELSE same

\* the liveness window and the settlement, for a call that passed the guard:
\* [err, sub, balance, pay], pay being the amount moved from the treasury's
\* token account to the worker's.  checks: the build's overflow checks.
settle(sub, balance, treasury, nonce, cur_time, checks) ==
    LET late == report_window(cur_time, sub.last_report_time) = "late"
        early == report_window(cur_time, sub.last_report_time) = "early"
        s1 == [sub EXCEPT !.restart = @ \/ late
                                        \/ nonce_mismatch(sub.nonce, nonce)]
        same == [err |-> "Ok", sub |-> s1, balance |-> balance, pay |-> 0]
    IN  IF early THEN [same EXCEPT !.err = "ReportedEarly"]
        ELSE IF insolvent(balance, s1.rent)
        THEN [same EXCEPT !.sub.closed = TRUE]
        ELSE IF ~s1.restart
        THEN (IF U64Lt(treasury, s1.rent)
              THEN [same EXCEPT !.err = "InsufficientFunds"]
              ELSE IF SubUnderflows(balance, s1.rent) /\ checks
              THEN [same EXCEPT !.err = "Panic"]
              ELSE [err |-> "Ok",
                    sub |-> [s1 EXCEPT !.nonce = @ + 1,
                                       !.last_report_time = cur_time],
                    balance |-> balance - s1.rent,
                    pay |-> s1.rent])
        ELSE same

\* what the call returns and, if it succeeds, does
report_work_result(c) ==
    LET g == report_work_guard(c)
        st == settle(subs[c.sub_state], users[c.user].balance,
                     tokens[c.program_ata], c.nonce, now, overflow_checks)
    IN  IF g # "Ok"
        THEN [err |-> g, sub |-> subs[c.sub_state], balance |-> 0, pay |-> 0]
        ELSE st

report_work(c) ==
    LET a == c.sub_state
        w == c.bid_winner
        u == c.user
        st == report_work_result(c)
    IN  /\ bidders[w].nonce < MaxNonce
        /\ IF st.err # "Ok" THEN Fail
           ELSE /\ subs' = [subs EXCEPT ![a] = st.sub]
                /\ users' = [users EXCEPT ![u].balance = st.balance]
                /\ tokens' = IF st.pay = 0 THEN tokens
                             ELSE [tokens EXCEPT ![c.program_ata] = @ - st.pay,
                                                 ![c.bid_winner_ata] = @ + st.pay]
                /\ bidders' = [bidders EXCEPT ![w] = bump_nonce(@)]
                /\ Authenticated(w, c.att)
                /\ charged' = [charged EXCEPT ![u] = @ + st.pay]
                /\ earned' = [earned EXCEPT ![w] = @ + st.pay]
                /\ last' = Result("ReportWork", w, a, st.pay, c.att, c.nonce)
                /\ UNCHANGED <<registry, env, deposited, auction>>

\* the calls on the subscriptions at the addresses in A
ReportWorkCallsOn(A) ==
    UNION {
      LET n == bidders[w].nonce
          t == Attestations[ORACLE, w, n]
          ok == [consensus |-> ORACLE, bid_winner |-> w,
                 bid_winner_signer |-> TRUE, bid_winner_state |-> BidderPda(w),
                 bid_winner_ata |-> w, sub_state |-> a, user |-> a.owner,
                 user_state |-> UserPda(a.owner),
                 program_treasury |-> TreasuryPda, program_ata |-> TreasuryPda,
                 metadata |-> MetadataPda, ix_sysvar |-> IX_ID,
                 signature |-> t.signature, ix |-> t.ix,
                 nonce |-> subs[a].nonce, att |-> n]
          o == CHOOSE v \in Users : v # a.owner
      IN  AuthVariants(ok, w, n)
          \cup {[ok EXCEPT !.nonce = subs[a].nonce + 1],
                [ok EXCEPT !.bid_winner_ata = CHOOSE v \in Workers : v # w],
                [ok EXCEPT !.user = o, !.user_state = UserPda(o)],
                [ok EXCEPT !.bid_winner_state = a],
                [ok EXCEPT !.user_state = BidderPda(w)]}
      : w \in Workers, a \in A }

ReportWorkCalls == ReportWorkCallsOn(SubAddrs)

-----------------------------------------------------------------------------
(* processor.rs close_sub: c = [user, user_signer, user_sub] *)

\* a close that checks the signature but not whose subscription it is
close_sub_err_any_signer(c) ==
    IF ~c.user_signer THEN "MissingRequiredSignature"
    ELSE IF ~ProgramOwned(c.user_sub) THEN "InvalidAccountOwner"
    ELSE "Ok"

close_sub_err(c) ==
    IF ~c.user_signer THEN "MissingRequiredSignature"
    ELSE IF ~ProgramOwned(c.user_sub) THEN "InvalidAccountOwner"
    ELSE IF SubPda(c.user, subs[c.user_sub].id) # c.user_sub THEN "InvalidPDA"
    ELSE "Ok"

close_sub(c) ==
    IF close_sub_err(c) # "Ok" THEN Fail
    ELSE /\ subs' = [subs EXCEPT ![c.user_sub].closed = TRUE]
         /\ last' = Result("CloseSub", c.user, c.user_sub, 0, 0, "")
         /\ UNCHANGED <<registry, users, bidders, tokens, env, history>>

\* the calls on the subscriptions at the addresses in A
CloseSubCallsOn(A) ==
    {[user |-> u, user_signer |-> TRUE, user_sub |-> a] :
        u \in Users, a \in A}
        \cup {[user |-> a.owner, user_signer |-> FALSE, user_sub |-> a] :
                a \in A}

CloseSubCalls == CloseSubCallsOn(SubAddrs)

-----------------------------------------------------------------------------
(* The clock.  Time moves to the instants at which some subscription's       *)
(* windows open or close, and to the instant after a window has closed.      *)

TickTargetsOn(A) ==
    UNION {
      LET e == subs[a].bid_endtime
          l == subs[a].last_report_time
      IN  IF ~subs[a].is_initialized THEN {}
          ELSE {e, e + CLAIM_WINDOW, e + CLAIM_WINDOW + 1}
               \cup (IF subs[a].is_assigned
                     THEN {l + REPORT_MIN, l + REPORT_MAX, l + REPORT_MAX + 1}
                     ELSE {})
      : a \in A }

TickTargets == TickTargetsOn(SubAddrs)

\* the clock moves to one of the instants in T
TickTo(T) ==
    /\ \E t \in T : t > now /\ t <= MaxTime /\ now' = t
    /\ UNCHANGED <<accounts, history, overflow_checks, last, vin, vout>>

Tick == TickTo(TickTargets)

-----------------------------------------------------------------------------

Next ==
    \/ \E c \in InitCalls : init(c)
    \/ \E c \in AddAppCalls : add_app(c)
    \/ \E c \in TopUpCalls : topup(c)
    \/ \E c \in StartSubscriptionCalls : start_subscription(c)
    \/ \E c \in BidCalls : bid(c)
    \/ \E c \in ClaimBidCalls : claimbid(c)
    \/ \E c \in ReportWorkCalls : report_work(c)
    \/ \E c \in CloseSubCalls : close_sub(c)
    \/ Tick

Spec == Init /\ [][Next]_vars

-----------------------------------------------------------------------------
(* The attestation check on its own: is_valid_consesues applied to records   *)
(* that are right and to records that are wrong in one place.                 *)

SigNonces == {0, 258, 16909060}

\* the eight bytes of each nonce, written out
NonceBytes(n) ==
    CASE n = 0 -> <<0, 0, 0, 0, 0, 0, 0, 0>>
      [] n = 258 -> <<0, 0, 0, 0, 0, 0, 1, 2>>
      [] n = 16909060 -> <<0, 0, 0, 0, 1, 2, 3, 4>>

\* the call in which the key `signer` attests w || n and the registry holds
\* `key`
SigInput(key, signer, w, n) ==
    LET msg == to_bytes(w) \o NonceBytes(n)
        sg == Sign(signer, msg)
    IN  [md |-> [exists |-> TRUE, is_initialized |-> TRUE,
                 vault_public_key |-> key],
         consensus |-> signer, metadata |-> MetadataPda, ix_sysvar |-> IX_ID,
         bidder |-> w, nonce |-> n, signature |-> sg,
         ix |-> [program_id |-> ED25519_ID, accounts |-> 0,
                 data |-> Ed25519Data(to_bytes(signer), sg, msg)]]

\* byte i of a sequence replaced by the next byte value
Bump(bytes, i) == [bytes EXCEPT ![i] = (@ + 1) % 256]

SigInputs ==
    UNION {
      LET ok == SigInput(ORACLE, ORACLE, "w1", n)
          d == ok.ix.data
      IN  {ok, SigInput(MALLORY, MALLORY, "w1", n),
           SigInput(ORACLE, MALLORY, "w1", n),
           [ok EXCEPT !.consensus = MALLORY],
           [ok EXCEPT !.metadata = TreasuryPda],
           [ok EXCEPT !.ix_sysvar = "sysvar_clock"],
           [ok EXCEPT !.md.is_initialized = FALSE],
           [ok EXCEPT !.md.exists = FALSE, !.md.is_initialized = FALSE],
           [ok EXCEPT !.ix.program_id = OTHER_PROGRAM],
           [ok EXCEPT !.ix.accounts = 1],
           [ok EXCEPT !.ix.data = SubSeq(d, 1, Len(d) - 1)],
           [ok EXCEPT !.ix.data = Append(d, 0)],
           [ok EXCEPT !.bidder = "w2"],
           [ok EXCEPT !.nonce = CHOOSE m \in SigNonces : m # n],
           [ok EXCEPT !.ix.data = Bump(Bump(d, 17), 152)],
           [ok EXCEPT !.signature = SubSeq(ok.signature, 1, 63)]}
          \cup {[ok EXCEPT !.ix.data = Bump(d, i)] : i \in 1 .. Len(d)}
          \cup {[ok EXCEPT !.signature = Bump(ok.signature, i)] : i \in {1, 64}}
      : n \in SigNonces }

Verify ==
    \E in \in SigInputs :
        /\ vin' = in
        /\ vout' = is_valid_consesues(in.md, in.ix_sysvar, in.consensus,
                       in.metadata, in.ix, raw_message(in.bidder, in.nonce),
                       in.signature)
        /\ UNCHANGED <<accounts, history, now, overflow_checks, last>>

NextSig == Verify

SpecSig == Init /\ [][NextSig]_vars

-----------------------------------------------------------------------------
(* Opening on its own: the registry, deposits and openings by every user,    *)
(* each user opening up to MaxOpens subscriptions, and the clock.            *)

open_any(c) ==
    users[c.subscriber].count < MaxOpens /\ start_subscription_step(c)

NextOpen ==
    \/ \E c \in InitCalls : init(c)
    \/ \E c \in AddAppCalls : add_app(c)
    \/ \E c \in TopUpCalls : topup(c)
    \/ \E c \in StartSubscriptionCallsOf(Users) : open_any(c)
    \/ TickTo(TickTargetsOn(SubSlots))

SpecOpen == Init /\ [][NextOpen]_vars

-----------------------------------------------------------------------------
(* Deposits over a whole subscription: u1 starts with enough tokens for two  *)
(* deposits, every deposit call is made, and the subscription is opened, bid *)
(* for, claimed and reported on by authentic calls.                          *)

InitFunds ==
    /\ metadata = [exists |-> FALSE, is_initialized |-> FALSE,
                   vault_public_key |-> SYSTEM_PROGRAM]
    /\ app_counter = [exists |-> FALSE, is_initialized |-> FALSE, counter |-> 0]
    /\ apps = [i \in AppIds |-> ZeroApp]
    /\ users = [u \in Users |-> ZeroUser]
    /\ subs = [a \in SubSlots |-> ZeroSub]
    /\ bidders = [w \in Workers |-> ZeroBidder]
    /\ tokens = [a \in TokenOwners |->
                   IF a \in Subscribers THEN 2 * Wallet
                   ELSE IF a \in Users THEN Wallet ELSE 0]
    /\ now = StartTime
    /\ overflow_checks \in BOOLEAN
    /\ last = NoCall
    /\ deposited = [u \in Users |-> 0]
    /\ charged = [u \in Users |-> 0]
    /\ earned = [w \in Workers |-> 0]
    /\ calls = [w \in Workers |-> 0]
    /\ used = [w \in Workers |-> {}]
    /\ low_bid = [a \in SubSlots |-> 0]
    /\ bids = [a \in SubSlots |-> 0]
    /\ first_best = [a \in SubSlots |-> SYSTEM_PROGRAM]
    /\ vin = NoInput
    /\ vout = "none"

NextFunds ==
    \/ \E c \in InitCalls : init(c)
    \/ \E c \in AddAppCalls : add_app(c)
    \/ \E c \in TopUpCalls : topup(c)
    \/ \E c \in StartSubscriptionCalls : start_subscription(c)
    \/ \E c \in BidCalls :
          /\ U64Lt(c.bid_amount, subs[c.sub_state].rent)
          /\ c.system_program = SYSTEM_PROGRAM
          /\ bid(c)
    \/ \E c \in ClaimBidCalls : claimbid(c)
    \/ \E c \in ReportWorkCalls : report_work(c)
    \/ Tick

SpecFunds == InitFunds /\ [][NextFunds]_vars

-----------------------------------------------------------------------------
(* Several subscriptions side by side: two of u1 and one of u2, all opened   *)
(* at the start, with both workers bidding below the price, claiming and     *)
(* reporting at the first instants of the windows.                           *)

PairAddrs == {SubPda("u1", 0), SubPda("u1", 1), SubPda("u2", 0)}

\* the end of the bid window, the last instant of the claim window and the
\* first instants of two report windows
PairTimes == {StartTime + BID_WINDOW,
              StartTime + BID_WINDOW + CLAIM_WINDOW,
              StartTime + BID_WINDOW + REPORT_MIN,
              StartTime + BID_WINDOW + 2 * REPORT_MIN}

NextPair ==
    \/ \E c \in InitCalls : init(c)
    \/ \E c \in AddAppCalls : add_app(c)
    \/ \E c \in TopUpCalls : topup(c)
    \/ \E c \in StartSubscriptionCallsOf(Users) :
          /\ SubPda(c.subscriber, users[c.subscriber].count) \in PairAddrs
          /\ now = StartTime
          /\ start_subscription_step(c)
    \/ \E c \in BidCallsOn(PairAddrs) :
          /\ U64Lt(c.bid_amount, subs[c.sub_state].rent)
          /\ c.system_program = SYSTEM_PROGRAM
          /\ bid(c)
    \/ \E c \in ClaimBidCallsOn(PairAddrs) : claimbid(c)
    \/ \E c \in ReportWorkCallsOn(PairAddrs) : report_work(c)
    \/ TickTo(TickTargetsOn(PairAddrs) \cap PairTimes)

SpecPair == Init /\ [][NextPair]_vars

-----------------------------------------------------------------------------
(* An app record in the subscription slot.  bid and claimbid test only that   *)
(* the account in the slot is owned by the program; add_app stores a         *)
(* content pointer of the creator's choice, and 91 bytes of it can make the  *)
(* data of the app record read as a subscription.                            *)

ForgedLen == 91

\* a subscription whose first five bytes are those of an initialised app
\* record holding ForgedLen bytes of content
ForgedSub ==
    [ZeroSub EXCEPT !.id = 1 + 256 * ForgedLen, !.is_initialized = TRUE,
                    !.max_rent = 100, !.rent = 100,
                    !.bid_endtime = StartTime + BID_WINDOW]

\* the content that completes it
ForgedHash == Slice(sub_to_bytes(ForgedSub, <<>>), 5, 5 + ForgedLen)

AppAddrs == {AppPda(i) : i \in AppIds}

\* the data of the app account at address a, read as a subscription
app_as_sub(a) == sub_from_slice(app_data(apps[a.index]))

\* the app record after a subscription has been serialized into its data
app_written(app, sub, params) ==
    LET data == overwrite(app_data(app), sub_to_bytes(sub, params))
    IN  IF app_from_slice(data).ok THEN app_from_slice(data).app
        ELSE [raw |-> data]

bid_on_app_err(c) ==
    bid_err_with(c, ProgramOwned(c.sub_state),
                 app_as_sub(c.sub_state))

bid_on_app(c) ==
    LET i == c.sub_state.index
        w == c.bidder
        d == app_as_sub(c.sub_state)
    IN  /\ bidders[w].nonce < MaxNonce
        /\ IF bid_on_app_err(c) # "Ok" THEN Fail
           ELSE /\ apps' = [apps EXCEPT ![i] =
                              app_written(@, bid_sub(d.sub, w, c.system_program,
                                                     c.bid_amount), d.params)]
                /\ bidders' = [bidders EXCEPT ![w] = bid_bidder(@)]
                /\ Authenticated(w, c.att)
                /\ last' = Result("Bid", w, c.sub_state, c.bid_amount, c.att,
                                  c.system_program)
                /\ UNCHANGED <<metadata, app_counter, users, subs, tokens, env,
                               money, auction>>

claimbid_on_app_err(c) ==
    claimbid_err_with(c, ProgramOwned(c.sub_state),
                      app_as_sub(c.sub_state))

claimbid_on_app(c) ==
    LET i == c.sub_state.index
        w == c.bid_winner
        d == app_as_sub(c.sub_state)
    IN  /\ bidders[w].nonce < MaxNonce
        /\ IF claimbid_on_app_err(c) # "Ok" THEN Fail
           ELSE /\ apps' = [apps EXCEPT ![i] =
                              app_written(@, claim_sub(d.sub, now), d.params)]
                /\ bidders' = [bidders EXCEPT ![w] = bump_nonce(@)]
                /\ Authenticated(w, c.att)
                /\ last' = Result("ClaimBid", w, c.sub_state, 0, c.att, "")
                /\ UNCHANGED <<metadata, app_counter, users, subs, tokens, env,
                               money, auction>>

\* close_sub recomputes the address from the signer and the id it reads
close_on_app_err(c) ==
    IF ~c.user_signer THEN "MissingRequiredSignature"
    ELSE IF ~ProgramOwned(c.user_sub) THEN "InvalidAccountOwner"
    ELSE IF ~app_as_sub(c.user_sub).ok THEN "Panic"
    ELSE IF ~app_as_sub(c.user_sub).sub.is_initialized
    THEN "UninitializedAccount"
    ELSE IF SubPda(c.user, app_as_sub(c.user_sub).sub.id) # c.user_sub
    THEN "InvalidPDA"
    ELSE "Ok"

\* the end of the forged bid window and the instant after its claim window
SlotTimes == {ForgedSub.bid_endtime,
              ForgedSub.bid_endtime + CLAIM_WINDOW + 1}

NextSlot ==
    \/ \E c \in InitCalls : init(c)
    \/ \E c \in AddAppCallsOf(PlainHash) \cup AddAppCallsOf(ForgedHash) :
          add_app(c)
    \/ \E c \in BidCallsOn(AppAddrs) :
          c.sub_state \in AppAddrs /\ bid_on_app(c)
    \/ \E c \in ClaimBidCallsOn(AppAddrs) : claimbid_on_app(c)
    \/ TickTo(SlotTimes)

SpecSlot == Init /\ [][NextSlot]_vars

-----------------------------------------------------------------------------
(* The settlement over the 64-bit range: the state in which w1 has just      *)
(* claimed u1's subscription, for escrow balances b up to 2^64 - 1 (the      *)
(* treasury holds the b tokens u1 deposited) and for the prices a bid can    *)
(* leave.                                                                    *)

SettleAddr == SubPda("u1", 0)

\* the prices: a bid below the ceiling, and the ceiling
RentSamples == {90, 100}

\* balances of at least the ceiling, among them 2^64 - k as the residue -k
BalanceSamples ==
    {100, 189, 190, 200} \cup {0 - k : k \in {1, 90, 91, 100, 101, 200}}

InitSettle ==
    \E b \in BalanceSamples, r \in RentSamples :
       /\ metadata = [exists |-> TRUE, is_initialized |-> TRUE,
                      vault_public_key |-> ORACLE]
       /\ app_counter = [exists |-> TRUE, is_initialized |-> TRUE,
                         counter |-> 1]
       /\ apps = [i \in AppIds |->
                    IF i = 0
                    THEN [is_initialized |-> TRUE, ipfs_hash |-> PlainHash,
                          rent |-> 100, creator_ata |-> "u1"]
                    ELSE ZeroApp]
       /\ users = [u \in Users |->
                     IF u = "u1"
                     THEN [is_initialized |-> TRUE, count |-> 1, balance |-> b]
                     ELSE ZeroUser]
       /\ subs = [a \in SubSlots |->
                    IF a = SettleAddr
                    THEN claim_sub(bid_sub(new_sub(0, 0, 100, StartTime), "w1",
                                           SYSTEM_PROGRAM, r),
                                   StartTime + BID_WINDOW)
                    ELSE ZeroSub]
       /\ bidders = [w \in Workers |->
                       IF w = "w1" THEN bump_nonce(bid_bidder(ZeroBidder))
                       ELSE ZeroBidder]
       /\ tokens = [a \in TokenOwners |->
                      IF a = TreasuryPda THEN b
                      ELSE IF a = "u2" THEN Wallet ELSE 0]
       /\ now = StartTime + BID_WINDOW
       /\ overflow_checks \in BOOLEAN
       /\ last = Result("ClaimBid", "w1", SettleAddr, 0, 1, "")
       /\ deposited = [u \in Users |-> IF u = "u1" THEN b ELSE 0]
       /\ charged = [u \in Users |-> 0]
       /\ earned = [w \in Workers |-> 0]
       /\ calls = [w \in Workers |-> IF w = "w1" THEN 2 ELSE 0]
       /\ used = [w \in Workers |-> IF w = "w1" THEN {0, 1} ELSE {}]
       /\ low_bid = [a \in SubSlots |-> IF a = SettleAddr THEN r ELSE 0]
       /\ bids = [a \in SubSlots |-> IF a = SettleAddr THEN 1 ELSE 0]
       /\ first_best = [a \in SubSlots |->
                          IF a = SettleAddr THEN "w1" ELSE SYSTEM_PROGRAM]
       /\ vin = NoInput
       /\ vout = "none"

NextSettle ==
    \/ \E c \in ReportWorkCallsOn({SettleAddr}) : report_work(c)
    \/ \E c \in CloseSubCallsOn({SettleAddr}) : close_sub(c)
    \/ TickTo(TickTargetsOn({SettleAddr}))

SpecSettle == InitSettle /\ [][NextSettle]_vars

-----------------------------------------------------------------------------
(* Properties.  An authenticated call is one whose signer, derived addresses *)
(* and attestation slots are the right ones and whose attestation is the      *)
(* oracle's over the worker's stored nonce.                                   *)

FreshAttestation(c, w) ==
    /\ metadata.is_initialized
    /\ metadata.vault_public_key = ORACLE
    /\ c.metadata = MetadataPda
    /\ c.ix_sysvar = IX_ID
    /\ c.consensus = ORACLE
    /\ c.ix = Attestations[ORACLE, w, bidders[w].nonce].ix
    /\ c.signature = Attestations[ORACLE, w, bidders[w].nonce].signature

\* the oracle's attestation over a nonce below the stored one
StaleAttestation(c, w) ==
    /\ c.att < bidders[w].nonce
    /\ c.consensus = ORACLE
    /\ c.ix = Attestations[ORACLE, w, c.att].ix
    /\ c.signature = Attestations[ORACLE, w, c.att].signature

\* the same call with the attestation over the stored nonce
Renewed(c, w) ==
    [c EXCEPT !.ix = Attestations[ORACLE, w, bidders[w].nonce].ix,
              !.signature = Attestations[ORACLE, w, bidders[w].nonce].signature,
              !.att = bidders[w].nonce]

AuthenticBid(c) ==
    /\ c.bidder_signer
    /\ c.bidder_state = BidderPda(c.bidder)
    /\ subs[c.sub_state].is_initialized
    /\ bidders[c.bidder].is_initialized \/ c.system_program = SYSTEM_PROGRAM
    /\ FreshAttestation(c, c.bidder)

AuthenticClaim(c) ==
    /\ c.bid_winner_signer
    /\ c.bid_winner_state = BidderPda(c.bid_winner)
    /\ bidders[c.bid_winner].is_initialized
    /\ subs[c.sub_state].is_initialized
    /\ FreshAttestation(c, c.bid_winner)

AuthenticReport(c) ==
    /\ c.bid_winner_signer
    /\ c.bid_winner_state = BidderPda(c.bid_winner)
    /\ bidders[c.bid_winner].is_initialized
    /\ c.bid_winner_ata = c.bid_winner
    /\ c.program_treasury = TreasuryPda
    /\ c.program_ata = TreasuryPda
    /\ c.user_state = UserPda(c.user)
    /\ users[c.user].is_initialized
    /\ subs[c.sub_state].is_initialized
    /\ c.sub_state = SubPda(c.user, subs[c.sub_state].id)
    /\ FreshAttestation(c, c.bid_winner)

AuthOps == {"Bid", "ClaimBid", "ReportWork"}

RECURSIVE SumOver(_, _)
SumOver(f, S) ==
    IF S = {} THEN 0
    ELSE LET x == CHOOSE y \in S : TRUE IN f[x] + SumOver(f, S \ {x})

-----------------------------------------------------------------------------

\* C1 -- Insolvency protection in ReportWork: when an authenticated report by
\* the recorded executor on an assigned, open subscription reaches settlement
\* and the subscriber's balance is below the current price, the call succeeds,
\* closes the subscription, moves no tokens and leaves the balance as it was,
\* whatever the restart flag of that call; and no balance is ever negative.
C1_InsolvencyProtection ==
    /\ \A u \in Users : users[u].balance >= 0
    /\ \A c \in ReportWorkCalls :
         LET sub == subs[c.sub_state]
             balance == users[c.user].balance
             st == settle(sub, balance, tokens[c.program_ata], c.nonce, now,
                          overflow_checks)
         IN  (/\ AuthenticReport(c)
              /\ report_work_guard(c) = "Ok"
              /\ now >= sub.last_report_time + 600
              /\ balance >= 0 /\ balance < sub.rent)
             => /\ st.err = "Ok"
                /\ st.sub.closed
                /\ st.pay = 0
                /\ st.balance = balance

\* a report reaches settlement while the balance is below the price
C1_Reached ==
    \E c \in ReportWorkCalls :
        /\ AuthenticReport(c)
        /\ report_work_guard(c) = "Ok"
        /\ now >= subs[c.sub_state].last_report_time + 600
        /\ users[c.user].balance >= 0
        /\ users[c.user].balance < subs[c.sub_state].rent

\* C2 -- Escrow accounting: every subscriber's balance is the sum of their
\* successful deposits minus the sum of the prices charged by paid reports on
\* their subscriptions (a u64 that is this difference, so not below zero), and
\* what was charged to subscribers is what was paid out to workers.
C2_EscrowAccounting ==
    /\ \A u \in Users :
         /\ users[u].balance >= 0
         /\ users[u].balance = deposited[u] - charged[u]
    /\ SumOver(charged, Users) = SumOver(earned, Workers)
    /\ tokens[TreasuryPda] = SumOver(deposited, Users) - SumOver(earned, Workers)

\* a deposit and a paid report have both happened
C2_Reached ==
    \E u \in Users : deposited[u] > 0 /\ charged[u] > 0

\* C3 -- Bid selection: the stored price is the minimum of the ceiling and all
\* accepted bid amounts, and the stored executor is the earliest bidder that
\* reached that minimum by bidding strictly lower, or the first bidder at the
\* ceiling if nobody bid lower, or nobody.
C3_BidSelection ==
    \A a \in SubAddrs :
        subs[a].is_initialized
            => /\ subs[a].rent = low_bid[a]
               /\ subs[a].executor = first_best[a]

\* three bids, the lowest below the ceiling
C3_Reached ==
    \E a \in SubAddrs :
        subs[a].is_initialized /\ bids[a] = 3 /\ low_bid[a] < subs[a].max_rent

\* C4 -- An equal bid never displaces an executor: on a subscription with a
\* recorded executor, a successful bid equal to the current price leaves the
\* executor as it was, whatever account is passed in the system-program slot.
C4_EqualBidKeepsExecutor ==
    \A c \in BidCalls :
        LET sub == subs[c.sub_state]
        IN  (/\ bid_err(c) = "Ok"
             /\ sub.executor # SYSTEM_PROGRAM
             /\ c.bid_amount = sub.rent)
            => bid_sub(sub, c.bidder, c.system_program, c.bid_amount).executor
                   = sub.executor

\* an equal bid by another worker is possible on a subscription with an executor
C4_Reached ==
    \E c \in BidCalls :
        /\ bid_err(c) = "Ok"
        /\ subs[c.sub_state].executor \notin {SYSTEM_PROGRAM, c.bidder}
        /\ c.bid_amount = subs[c.sub_state].rent

\* C5 -- Price ceiling: the current price of every subscription is at most its
\* ceiling; the ceiling never changes once the subscription is open and the
\* current price never goes up.
C5_PriceCeiling ==
    /\ [](\A a \in SubAddrs :
            subs[a].is_initialized => subs[a].rent <= subs[a].max_rent)
    /\ [][\A a \in SubAddrs :
            subs[a].is_initialized
                => /\ subs'[a].max_rent = subs[a].max_rent
                   /\ subs'[a].rent <= subs[a].rent]_vars

\* a bid above the ceiling succeeded on a subscription whose price had already
\* been bid down
C5_Reached ==
    /\ last.op = "Bid"
    /\ last.amount > subs[last.sub].max_rent
    /\ subs[last.sub].rent < subs[last.sub].max_rent

\* C6 -- Bid window: the end of the bid window is the opening time plus 60 and
\* never changes; a bid succeeds only strictly before it; an authenticated bid
\* at or after it returns BidTimeExpired, and no bid is recorded then.
C6_BidWindow ==
    /\ [](\A c \in BidCalls :
            LET e == subs[c.sub_state].bid_endtime
            IN  /\ bid_err(c) = "Ok" => now < e
                /\ (AuthenticBid(c) /\ now >= e)
                       => bid_err(c) = "BidTimeExpired")
    /\ [][\A a \in SubAddrs :
            /\ (~subs[a].is_initialized /\ subs'[a].is_initialized)
                   => subs'[a].bid_endtime = now + 60
            /\ subs[a].is_initialized
                   => subs'[a].bid_endtime = subs[a].bid_endtime
            /\ (subs[a].is_initialized /\ now >= subs[a].bid_endtime)
                   => /\ bids'[a] = bids[a]
                      /\ subs'[a].rent = subs[a].rent
                      /\ subs'[a].executor = subs[a].executor]_vars

\* an authenticated bid at the very end of the window is turned down
C6_Reached ==
    \E c \in BidCalls :
        /\ AuthenticBid(c)
        /\ now = subs[c.sub_state].bid_endtime
        /\ bid_err(c) = "BidTimeExpired"

\* C7 -- Replay nonce: a worker's stored nonce is the number of their
\* successful Bid, ClaimBid and ReportWork calls; each such call adds exactly
\* one, whatever its outcome for the bid or the settlement, and nothing else
\* changes it.
C7_ReplayNonce ==
    /\ [](\A w \in Workers : bidders[w].nonce = calls[w])
    /\ [][\A w \in Workers :
            bidders'[w].nonce = bidders[w].nonce
                + (IF last' # last /\ last'.op \in AuthOps /\ last'.who = w
                   THEN 1 ELSE 0)]_vars

\* a worker's third call was a report that paid nothing, after a bid of
\* theirs and a claim
C7_Reached ==
    /\ last.op = "ReportWork"
    /\ last.amount = 0
    /\ bidders[last.who].nonce >= 3

\* C8 -- Replay prevention: every nonce an accepted attestation covered is
\* below the worker's stored nonce, and a Bid, ClaimBid or ReportWork that
\* presents the oracle's attestation over a nonce below the stored one does
\* not succeed; where the call is otherwise an authenticated one it returns
\* SigVerificationFailed.
C8_ReplayPrevention ==
    /\ \A w \in Workers : \A n \in used[w] : n < bidders[w].nonce
    /\ \A c \in BidCalls :
         StaleAttestation(c, c.bidder)
            => /\ bid_err(c) # "Ok"
               /\ AuthenticBid(Renewed(c, c.bidder))
                      => bid_err(c) = "SigVerificationFailed"
    /\ \A c \in ClaimBidCalls :
         StaleAttestation(c, c.bid_winner)
            => /\ claimbid_err(c) # "Ok"
               /\ AuthenticClaim(Renewed(c, c.bid_winner))
                      => claimbid_err(c) = "SigVerificationFailed"
    /\ \A c \in ReportWorkCalls :
         StaleAttestation(c, c.bid_winner)
            => /\ report_work_result(c).err # "Ok"
               /\ AuthenticReport(Renewed(c, c.bid_winner))
                      => report_work_result(c).err = "SigVerificationFailed"

\* the attestation of a worker's accepted bid is presented again with a claim
\* that would otherwise succeed
C8_Reached ==
    \E c \in ClaimBidCalls :
        /\ StaleAttestation(c, c.bid_winner)
        /\ c.att \in used[c.bid_winner]
        /\ claimbid_err(Renewed(c, c.bid_winner)) = "Ok"
        /\ claimbid_err(c) = "SigVerificationFailed"

\* the slots are the registry account, initialised, and the instructions sysvar
GenuineSlots(in) ==
    /\ in.metadata = MetadataPda
    /\ in.md.exists
    /\ in.md.is_initialized
    /\ in.ix_sysvar = IX_ID

\* count 1, padding 0, signature at 48, key at 16, message at 112 of size 40,
\* the three instruction indices 0xFFFF
ExpectedHeader ==
    <<1, 0, 48, 0, 255, 255, 16, 0, 255, 255, 112, 0, 40, 0, 255, 255>>

\* a nonce below 2^32 as 8 bytes, most significant first
BigEndian8(n) ==
    <<0, 0, 0, 0, n \div 16777216, (n \div 65536) % 256, (n \div 256) % 256,
      n % 256>>

ExpectedData(in) ==
    ExpectedHeader \o to_bytes(in.md.vault_public_key) \o in.signature
        \o to_bytes(in.bidder) \o BigEndian8(in.nonce)

ExpectedRecord(in) ==
    /\ in.consensus = in.md.vault_public_key
    /\ in.ix.program_id = ED25519_ID
    /\ in.ix.accounts = 0
    /\ Len(in.ix.data) = 16 + 64 + 32 + 40
    /\ in.ix.data = ExpectedData(in)

\* the record is the expected one but for one byte of key, signature or message
OneByteOff(in) ==
    /\ in.consensus = in.md.vault_public_key
    /\ in.ix.program_id = ED25519_ID
    /\ in.ix.accounts = 0
    /\ Len(in.ix.data) = Len(ExpectedData(in))
    /\ Cardinality({i \in 1 .. Len(in.ix.data) :
                      in.ix.data[i] # ExpectedData(in)[i]}) = 1
    /\ \A i \in 1 .. 16 : in.ix.data[i] = ExpectedData(in)[i]

\* C9 -- Attestation acceptance is exact: with the registry account and the
\* instructions sysvar in their slots, the check returns Ok exactly when the
\* consensus key is the registry's and the first instruction is the expected
\* record (ed25519 program, no accounts, 152 bytes, the single-signature
\* header, then the oracle key, the caller's signature and signer || nonce
\* with the nonce big-endian); a record one byte off in key, signature or
\* message returns SigVerificationFailed; with other slots it never returns Ok.
C9_AttestationExact ==
    vout # "none"
        => /\ (vout = "Ok") <=> (GenuineSlots(vin) /\ ExpectedRecord(vin))
           /\ (GenuineSlots(vin) /\ OneByteOff(vin))
                  => vout = "SigVerificationFailed"

\* a record whose message is one byte off, over a nonce of two non-zero bytes
C9_Reached ==
    /\ vout = "SigVerificationFailed"
    /\ GenuineSlots(vin)
    /\ OneByteOff(vin)
    /\ vin.nonce = 258
    /\ vin.ix.data[152] # 2

\* an authenticated claim by the recorded executor of an open, unassigned
\* subscription
Claimable(c) ==
    /\ AuthenticClaim(c)
    /\ subs[c.sub_state].executor = c.bid_winner
    /\ ~subs[c.sub_state].closed
    /\ ~subs[c.sub_state].is_assigned

\* C10 -- Claim window: an authenticated claim by the recorded executor of an
\* open, unassigned subscription succeeds exactly when
\* bid end <= now <= bid end + 300; earlier it returns ReportedEarly, later
\* BidClaimExpired; a successful claim sets is_assigned and last_report_time to
\* now, adds one to the claimant's nonce and changes nothing else of the
\* subscription.
C10_ClaimWindow ==
    /\ [](\A c \in ClaimBidCalls :
            LET e == subs[c.sub_state].bid_endtime
            IN  Claimable(c)
                => /\ (claimbid_err(c) = "Ok") <=> (e <= now /\ now <= e + 300)
                   /\ now < e => claimbid_err(c) = "ReportedEarly"
                   /\ now > e + 300 => claimbid_err(c) = "BidClaimExpired")
    /\ [][(last' # last /\ last'.op = "ClaimBid")
            => /\ ~subs[last'.sub].is_assigned
               /\ subs' = [subs EXCEPT ![last'.sub] =
                             [@ EXCEPT !.is_assigned = TRUE,
                                       !.last_report_time = now]]
               /\ bidders' = [bidders EXCEPT ![last'.who].nonce = @ + 1]]_vars

\* a claim succeeded at the last instant of the window
C10_Reached ==
    /\ last.op = "ClaimBid"
    /\ subs[last.sub].is_assigned
    /\ subs[last.sub].last_report_time = subs[last.sub].bid_endtime + 300

\* an authenticated report by the recorded executor of an assigned, open
\* subscription that is not in restart
Reportable(c) ==
    /\ AuthenticReport(c)
    /\ subs[c.sub_state].is_assigned
    /\ ~subs[c.sub_state].closed
    /\ ~subs[c.sub_state].restart
    /\ subs[c.sub_state].executor = c.bid_winner

\* C11 -- Liveness window of ReportWork: such a report returns ReportedEarly
\* before last_report_time + 600 and not from then on; after
\* last_report_time + 900 it succeeds, sets restart, moves no tokens, debits
\* nothing and leaves work nonce and last_report_time as they were, while the
\* worker's replay nonce goes up by one.
C11_ReportWindow ==
    /\ [](\A c \in ReportWorkCalls :
            LET sub == subs[c.sub_state]
                r == report_work_result(c)
            IN  Reportable(c)
                => /\ now < sub.last_report_time + 600
                          => r.err = "ReportedEarly"
                   /\ now >= sub.last_report_time + 600
                          => r.err # "ReportedEarly"
                   /\ now > sub.last_report_time + 900
                          => /\ r.err = "Ok"
                             /\ r.sub.restart
                             /\ r.pay = 0
                             /\ r.balance = users[c.user].balance
                             /\ r.sub.nonce = sub.nonce
                             /\ r.sub.last_report_time = sub.last_report_time)
    /\ [][(/\ last' # last
           /\ last'.op = "ReportWork"
           /\ now > subs[last'.sub].last_report_time + 900)
            => /\ subs'[last'.sub].restart
               /\ subs'[last'.sub].nonce = subs[last'.sub].nonce
               /\ subs'[last'.sub].last_report_time
                      = subs[last'.sub].last_report_time
               /\ tokens' = tokens
               /\ users' = users
               /\ bidders'[last'.who].nonce = bidders[last'.who].nonce + 1]_vars

\* a report with the right work nonce came after the deadline and was accepted
\* without payment
C11_Reached ==
    /\ last.op = "ReportWork"
    /\ last.amount = 0
    /\ last.slot = subs[last.sub].nonce
    /\ subs[last.sub].restart
    /\ now > subs[last.sub].last_report_time + 900

\* C12 -- Work-nonce check: a report that is valid but for carrying a nonce
\* other than the stored work nonce succeeds and sets restart; with a solvent
\* subscriber it moves no tokens, debits nothing and leaves work nonce and
\* last_report_time as they were.  Only a report carrying the stored work
\* nonce is ever paid.
C12_WorkNonce ==
    \A c \in ReportWorkCalls :
        LET sub == subs[c.sub_state]
            balance == users[c.user].balance
            r == report_work_result(c)
        IN  (Reportable(c) /\ now >= sub.last_report_time + 600)
            => /\ c.nonce # sub.nonce
                      => /\ r.err = "Ok"
                         /\ r.sub.restart
                         /\ ~U64Lt(balance, sub.rent)
                                => /\ r.pay = 0
                                   /\ r.balance = balance
                                   /\ r.sub.nonce = sub.nonce
                                   /\ r.sub.last_report_time
                                          = sub.last_report_time
               /\ r.pay > 0 => c.nonce = sub.nonce

\* a report inside the window carried another nonce and was accepted without
\* payment, the subscriber being solvent
C12_Reached ==
    /\ last.op = "ReportWork"
    /\ last.amount = 0
    /\ last.slot # subs[last.sub].nonce
    /\ subs[last.sub].restart
    /\ now <= subs[last.sub].last_report_time + 900
    /\ users["u1"].balance >= subs[last.sub].rent

\* an authenticated report by the recorded executor of an assigned, open
\* subscription that is in restart
ReportInRestart(c) ==
    /\ AuthenticReport(c)
    /\ subs[c.sub_state].is_assigned
    /\ ~subs[c.sub_state].closed
    /\ subs[c.sub_state].restart
    /\ subs[c.sub_state].executor = c.bid_winner

\* C13 -- Restart withholds payment permanently: a restart flag that is set
\* stays set; no ReportWork on that subscription succeeds any more (one that
\* passes the checks before it returns RestartPhase), so nothing is
\* transferred or debited for it again.
C13_RestartPermanent ==
    /\ [](\A c \in ReportWorkCalls :
            subs[c.sub_state].restart
                => /\ report_work_result(c).err # "Ok"
                   /\ ReportInRestart(c)
                          => report_work_result(c).err = "RestartPhase")
    /\ [][\A a \in SubAddrs :
            subs[a].restart
                => /\ subs'[a].restart
                   /\ subs'[a].nonce = subs[a].nonce
                   /\ subs'[a].last_report_time = subs[a].last_report_time
                   /\ ~(last' # last /\ last'.op = "ReportWork"
                            /\ last'.sub = a)]_vars

\* a subscription in restart whose executor reports again after the deadline
C13_Reached ==
    \E c \in ReportWorkCalls :
        /\ ReportInRestart(c)
        /\ now > subs[c.sub_state].last_report_time + 900
        /\ report_work_result(c).err = "RestartPhase"

\* C14 -- Restart is orthogonal to Reporting: while a subscription is in
\* restart and not closed, reports by its executor are accepted.
C14_RestartReportsAccepted ==
    \A c \in ReportWorkCalls :
        (ReportInRestart(c)
            /\ now >= subs[c.sub_state].last_report_time + 600)
            => report_work_result(c).err = "Ok"

\* C14, as the code has it: while a subscription is in restart and not closed,
\* every report by its executor returns RestartPhase, whatever the clock and
\* the work nonce; the one report accepted in a restart episode is the report
\* that sets the flag, and it pays nothing.
C14_RestartReportsRejected ==
    /\ [](\A c \in ReportWorkCalls :
            ReportInRestart(c) => report_work_result(c).err = "RestartPhase")
    /\ [][\A a \in SubAddrs :
            (~subs[a].restart /\ subs'[a].restart)
                => /\ last' # last
                   /\ last'.op = "ReportWork"
                   /\ last'.sub = a
                   /\ last'.amount = 0
                   /\ tokens' = tokens]_vars

\* a report inside the window with the stored work nonce, on a subscription in
\* restart
C14_Reached ==
    \E c \in ReportWorkCalls :
        /\ ReportInRestart(c)
        /\ now >= subs[c.sub_state].last_report_time + 600
        /\ now <= subs[c.sub_state].last_report_time + 900
        /\ c.nonce = subs[c.sub_state].nonce
        /\ report_work_result(c).err = "RestartPhase"

\* C15 -- Close authorization and effect: Close succeeds only for a signer
\* from whose key and the stored id the subscription's address derives; any
\* other signer gets InvalidPDA; the owner succeeds in every lifecycle state.
\* A successful Close sets closed and changes nothing else: no other field of
\* the subscription, no balance, no other account.
C15_CloseAuthorized ==
    /\ [](\A c \in CloseSubCalls :
            LET sub == subs[c.user_sub]
            IN  /\ close_sub_err(c) = "Ok"
                    => /\ c.user_signer
                       /\ c.user = c.user_sub.owner
                       /\ c.user_sub = SubPda(c.user, sub.id)
                /\ (c.user_signer /\ sub.is_initialized)
                    => close_sub_err(c) = (IF c.user = c.user_sub.owner
                                           THEN "Ok" ELSE "InvalidPDA"))
    /\ [][(last' # last /\ last'.op = "CloseSub")
            => /\ subs' = [subs EXCEPT ![last'.sub].closed = TRUE]
               /\ UNCHANGED <<registry, users, bidders, tokens>>]_vars

\* the owner closed a subscription that was assigned and in restart
C15_Reached ==
    /\ last.op = "CloseSub"
    /\ subs[last.sub].closed
    /\ subs[last.sub].is_assigned
    /\ subs[last.sub].restart

\* C16 -- Closed is terminal: a closed flag that is set stays set; it is set
\* only by Close or by ReportWork; no ClaimBid or ReportWork on a closed
\* subscription succeeds (one that passes the checks before it returns
\* SubScriptionClosed), so a closed subscription is not assigned afterwards
\* and pays nothing more.
C16_ClosedTerminal ==
    /\ [](/\ \A c \in ClaimBidCalls :
                subs[c.sub_state].closed
                    => /\ claimbid_err(c) # "Ok"
                       /\ AuthenticClaim(c)
                              => claimbid_err(c) = "SubScriptionClosed"
          /\ \A c \in ReportWorkCalls :
                subs[c.sub_state].closed
                    => /\ report_work_result(c).err # "Ok"
                       /\ AuthenticReport(c)
                              => report_work_result(c).err
                                     = "SubScriptionClosed")
    /\ [][\A a \in SubAddrs :
            /\ subs[a].closed
                   => /\ subs'[a].closed
                      /\ subs'[a].is_assigned = subs[a].is_assigned
                      /\ ~(last' # last /\ last'.sub = a
                               /\ last'.op \in {"ClaimBid", "ReportWork"})
            /\ (~subs[a].closed /\ subs'[a].closed)
                   => /\ last' # last
                      /\ last'.sub = a
                      /\ last'.op \in {"CloseSub", "ReportWork"}]_vars

\* the executor of a closed subscription that was never assigned claims it
\* inside the claim window
C16_Reached ==
    \E c \in ClaimBidCalls :
        /\ AuthenticClaim(c)
        /\ subs[c.sub_state].closed
        /\ ~subs[c.sub_state].is_assigned
        /\ subs[c.sub_state].executor = c.bid_winner
        /\ now >= subs[c.sub_state].bid_endtime
        /\ now <= subs[c.sub_state].bid_endtime + 300
        /\ claimbid_err(c) = "SubScriptionClosed"

\* an opening whose signer, addresses and system-program slot are the right
\* ones, for an application that exists, by a user with an escrow record
WellFormedOpen(c) ==
    /\ c.subscriber_signer
    /\ c.app_id \in AppIds
    /\ apps[c.app_id].is_initialized
    /\ c.app_state = AppPda(c.app_id)
    /\ c.subscriber_state = UserPda(c.subscriber)
    /\ users[c.subscriber].is_initialized
    /\ c.subscriber_sub_state = SubPda(c.subscriber, users[c.subscriber].count)
    /\ c.system_program = SYSTEM_PROGRAM

\* C17 -- Open: it succeeds only for an existing application and a balance of
\* at least max_rent, and returns InefficientBalance to a well-formed call
\* with less.  On success the new subscription has the subscriber's previous
\* count as id, price = max_rent, no executor, nothing assigned, closed or in
\* restart, work nonce 0 and bid end = now + 60; the count goes up by one and
\* no balance or token account changes.  A subscriber's subscriptions are
\* those with ids 0 .. count - 1.
C17_Open ==
    /\ [](/\ \A c \in StartSubscriptionCallsOf(Users) :
                c.subscriber_sub_state \in SubSlots
                    => /\ start_subscription_err(c) = "Ok"
                           => /\ apps[c.app_id].is_initialized
                              /\ ~U64Lt(users[c.subscriber].balance, c.max_rent)
                       /\ WellFormedOpen(c)
                           => start_subscription_err(c)
                                  = (IF U64Lt(users[c.subscriber].balance, c.max_rent)
                                     THEN "InefficientBalance" ELSE "Ok")
          /\ \A a \in SubSlots :
                /\ subs[a].is_initialized <=> a.index < users[a.owner].count
                /\ subs[a].is_initialized => subs[a].id = a.index)
    /\ [][(last' # last /\ last'.op = "StartSubscription")
            => LET u == last'.who
                   n == users[u].count
               IN  /\ last'.sub = SubPda(u, n)
                   /\ subs' = [subs EXCEPT ![SubPda(u, n)] =
                                 [id |-> n, is_initialized |-> TRUE,
                                  closed |-> FALSE, app_id |-> 0,
                                  max_rent |-> last'.amount,
                                  is_assigned |-> FALSE,
                                  executor |-> SYSTEM_PROGRAM,
                                  bid_endtime |-> now + 60,
                                  rent |-> last'.amount, nonce |-> 0,
                                  last_report_time |-> 0, restart |-> FALSE]]
                   /\ users' = [users EXCEPT ![u].count = n + 1]
                   /\ UNCHANGED <<registry, bidders, tokens>>]_vars

\* a subscriber's second subscription, opened with a balance equal to its
\* ceiling
C17_Reached ==
    /\ last.op = "StartSubscription"
    /\ last.sub.index = 1
    /\ subs[last.sub].id = 1
    /\ users[last.who].count = 2
    /\ users[last.who].balance = last.amount

\* a deposit call with its signature and the right accounts
WellFormedDeposit(c) ==
    /\ c.user_signer
    /\ c.user_ata = c.user
    /\ c.program_treasury = TreasuryPda
    /\ c.program_ata = TreasuryPda
    /\ c.user_state = UserPda(c.user)
    /\ c.system_program = SYSTEM_PROGRAM

\* C18 -- Deposit: once the Treasury exists, a deposit of 0 returns the zero-deposit error, a deposit of
\* more than the depositor holds returns InsufficientFunds, and any other
\* well-formed deposit succeeds; a successful one moves exactly the amount from
\* the depositor to the Treasury, adds exactly the amount to the escrow
\* balance without wrapping around 2^64, marks the record initialized and
\* leaves the subscription count alone.
C18_Deposit ==
    /\ [](\A c \in TopUpCalls :
            (WellFormedDeposit(c) /\ TreasuryOwned(c.program_treasury))
                => topup_err(c) =
                     (IF c.amount = 0 THEN "LessThenMinimumTopupAmount"
                      ELSE IF U64Lt(tokens[c.user_ata], c.amount)
                      THEN "InsufficientFunds" ELSE "Ok"))
    /\ [][(last' # last /\ last'.op = "TopUp")
            => LET u == last'.who
                   amount == last'.amount
               IN  /\ amount > 0
                   /\ tokens' = [tokens EXCEPT ![u] = @ - amount,
                                               ![TreasuryPda] = @ + amount]
                   /\ tokens[u] >= amount
                   /\ ~AddOverflows(users[u].balance, amount)
                   /\ users' = [users EXCEPT
                                  ![u] = [balance |-> users[u].balance + amount,
                                          count |-> users[u].count,
                                          is_initialized |-> TRUE]]
                   /\ UNCHANGED <<registry, subs, bidders>>]_vars

\* a deposit has succeeded on top of a balance that a report had driven
\* below zero
C18_Reached ==
    /\ last.op = "TopUp"
    /\ deposited[last.who] = 200
    /\ charged[last.who] = 180
    /\ users[last.who].balance = 20

\* the operations that name a subscription
SubOps == {"StartSubscription", "Bid", "ClaimBid", "ReportWork", "CloseSub"}

\* the step is a successful operation on one subscription
OnOneSub == last' # last /\ last'.op \in SubOps

\* the step leaves the subscription at Y and what the closing calls on it
\* return as they were
Untouched(Y) ==
    /\ subs'[Y] = subs[Y]
    /\ \A c \in CloseSubCallsOn({Y}) : (close_sub_err(c))' = close_sub_err(c)

\* C20 -- Subscription isolation: a successful operation on one subscription
\* changes no field of any other subscription and leaves what a call on
\* another subscription returns and does as it was, so that the two can run
\* in either order with the same outcomes and the same final state.  Stated
\* for the calls that share neither the worker nor, for an opening or a
\* report, the subscriber with the operation (one replay nonce per worker and
\* one escrow balance and count per subscriber are shared by design); an
\* opening that presents the acting worker's state account in a slot shares
\* that worker.
C20_Isolation ==
    [][OnOneSub
         => \A Y \in PairAddrs \ {last'.sub} :
               /\ Untouched(Y)
               /\ \A c \in StartSubscriptionCallsOf(Users) :
                     (/\ c.subscriber_sub_state = Y
                      /\ Y.owner # last'.sub.owner
                      /\ c.subscriber_state # BidderPda(last'.who))
                         => (start_subscription_err(c))'
                                = start_subscription_err(c)
               /\ \A c \in BidCallsOn({Y}) :
                     (c.sub_state = Y /\ c.bidder # last'.who)
                         => (bid_err(c))' = bid_err(c)
               /\ \A c \in ClaimBidCallsOn({Y}) :
                     (c.sub_state = Y /\ c.bid_winner # last'.who)
                         => (claimbid_err(c))' = claimbid_err(c)
               /\ \A c \in ReportWorkCallsOn({Y}) :
                     (/\ c.sub_state = Y
                      /\ c.bid_winner # last'.who
                      /\ Y.owner # last'.sub.owner)
                         => (report_work_result(c))' = report_work_result(c)]_vars

\* a paid report on one subscription at the instant at which a subscription
\* of another subscriber, run by another worker, has been paid as well
C20_Reached ==
    /\ last.op = "ReportWork"
    /\ last.amount > 0
    /\ \E Y \in PairAddrs \ {last.sub} :
          /\ Y.owner # last.sub.owner
          /\ subs[Y].is_assigned
          /\ subs[Y].executor \notin {last.who, SYSTEM_PROGRAM}
          /\ subs[Y].nonce = 1
          /\ subs[Y].last_report_time = now

\* a bid whose signature, bidder record and attestation are right, with an
\* existing app record in the subscription slot
SpoofedBid(c) ==
    /\ c.sub_state \in AppAddrs
    /\ apps[c.sub_state.index].is_initialized
    /\ c.bidder_signer
    /\ c.bidder_state = BidderPda(c.bidder)
    /\ bidders[c.bidder].is_initialized \/ c.system_program = SYSTEM_PROGRAM
    /\ FreshAttestation(c, c.bidder)

\* the same for a claim
SpoofedClaim(c) ==
    /\ apps[c.sub_state.index].is_initialized
    /\ c.bid_winner_signer
    /\ c.bid_winner_state = BidderPda(c.bid_winner)
    /\ bidders[c.bid_winner].is_initialized
    /\ FreshAttestation(c, c.bid_winner)

\* C21 -- Anti-spoofing of subscription addresses: Bid, ClaimBid and Close
\* return InvalidPDA when the account in the subscription slot is a
\* program-owned account at another address than the subscription address
\* recomputed from tag, owner and index (here an app record), and no successful Bid, ClaimBid, ReportWork or Close
\* changes a registry record.
C21_AntiSpoofing ==
    /\ [](/\ \A c \in BidCallsOn(AppAddrs) :
                SpoofedBid(c) => bid_on_app_err(c) = "InvalidPDA"
          /\ \A c \in ClaimBidCallsOn(AppAddrs) :
                SpoofedClaim(c) => claimbid_on_app_err(c) = "InvalidPDA"
          /\ \A c \in CloseSubCallsOn(AppAddrs) :
                (c.user_signer /\ apps[c.user_sub.index].is_initialized)
                    => close_on_app_err(c) = "InvalidPDA")
    /\ [][(last' # last /\ last'.op \in {"Bid", "ClaimBid", "ReportWork",
                                        "CloseSub"})
            => UNCHANGED registry]_vars

\* a bid has succeeded on an app record and has changed its content
C21_Reached ==
    /\ last.op = "Bid"
    /\ last.sub \in AppAddrs
    /\ apps[last.sub.index].is_initialized
    /\ apps[last.sub.index].ipfs_hash # ForgedHash
    /\ app_as_sub(last.sub).sub.executor = last.who


\* the registration calls of the model
RegisterCalls == AddAppCallsOf(PlainHash) \cup AddAppCallsOf(ForgedHash)

\* the app record that a successful registration c writes
Registration(c) ==
    [is_initialized |-> TRUE, ipfs_hash |-> c.ipfs_hash,
     rent |-> c.rent_amount, creator_ata |-> c.creator_ata]

\* C22 -- App registry: a registration fails unless the app counter has been
\* bootstrapped and the target record is absent; a successful one writes the
\* record at the counter's current value with the content pointer, the base
\* price and the creator's payment account, and adds one to the counter; the
\* counter always equals the number of registered apps and never decreases;
\* an app record once written is never modified by any operation.
C22_Registry ==
    /\ [](/\ app_counter.counter = Cardinality({i \in AppIds :
                                                  apps[i].is_initialized})
          /\ \A c \in RegisterCalls :
                (app_counter.counter < MaxApps /\ add_app_err(c) = "Ok")
                    => /\ app_counter.is_initialized
                       /\ c.app_state = AppPda(app_counter.counter)
                       /\ ~apps[app_counter.counter].is_initialized)
    /\ [][/\ app_counter'.counter >= app_counter.counter
          /\ app_counter'.counter # app_counter.counter
                => \E c \in RegisterCalls :
                      /\ add_app_err(c) = "Ok"
                      /\ apps' = [apps EXCEPT ![app_counter.counter] =
                                     Registration(c)]
                      /\ app_counter'.counter = app_counter.counter + 1
          /\ \A i \in AppIds :
                apps[i].is_initialized => apps'[i] = apps[i]]_vars

\* a claim has succeeded on a registered app record, whose stored content is
\* no longer the content it was registered with
C22_Reached ==
    /\ last.op = "ClaimBid"
    /\ last.sub \in AppAddrs
    /\ app_counter.counter = 1
    /\ apps[0].is_initialized
    /\ apps[0].ipfs_hash \notin {PlainHash, ForgedHash}


\* an authenticated report by the executor, carrying the stored work nonce,
\* inside the liveness window of an assigned, non-closed, non-restart
\* subscription whose owner's balance is at least the price
SolventReport(c) ==
    /\ c.sub_state = SettleAddr
    /\ report_work_guard(c) = "Ok"
    /\ c.nonce = subs[c.sub_state].nonce
    /\ report_window(now, subs[c.sub_state].last_report_time) = "in"
    /\ ~U64Lt(users[c.user].balance, subs[c.sub_state].rent)

\* C23 -- A solvent in-window report is always paid: for every balance and
\* price of the 64-bit range with balance >= price, such a report moves the
\* price from the treasury to the worker, debits the balance by the price,
\* adds one to the work nonce, sets last_report_time to now and sets neither
\* closed nor restart; the solvency test equals the comparison balance < price.
C23_SolventPaid ==
    \A c \in ReportWorkCallsOn({SettleAddr}) :
       SolventReport(c)
          => LET st == report_work_result(c)
                 sub == subs[c.sub_state]
             IN  /\ insolvent(users[c.user].balance, sub.rent)
                      = U64Lt(users[c.user].balance, sub.rent)
                 /\ st.err = "Ok"
                 /\ st.pay = sub.rent
                 /\ st.balance = users[c.user].balance - sub.rent
                 /\ st.sub.nonce = sub.nonce + 1
                 /\ st.sub.last_report_time = now
                 /\ ~st.sub.closed
                 /\ ~st.sub.restart

\* a report inside the window has closed, unpaid, a subscription whose owner's
\* balance is at least the price
C23_Reached ==
    /\ last.op = "ReportWork"
    /\ last.sub = SettleAddr
    /\ last.amount = 0
    /\ last.slot = subs[SettleAddr].nonce
    /\ subs[SettleAddr].closed
    /\ ~subs[SettleAddr].restart
    /\ report_window(now, subs[SettleAddr].last_report_time) = "in"
    /\ ~U64Lt(users["u1"].balance, subs[SettleAddr].rent)


\* the error the five business checks of a claim give, in the stated order
ClaimVerdict(sub, caller, cur_time) ==
    IF sub.closed THEN "SubScriptionClosed"
    ELSE IF sub.is_assigned THEN "BidAlreadyClaimed"
    ELSE IF sub.executor # caller THEN "UnAuthToClaimBid"
    ELSE IF cur_time > sub.bid_endtime + 300 THEN "BidClaimExpired"
    ELSE IF cur_time < sub.bid_endtime THEN "ReportedEarly"
    ELSE "Ok"

\* C24 -- ClaimBid rejection order: an authenticated claim returns the error
\* of the first violated check in the order closed, already assigned, caller
\* not the executor, now > bid end + 300, now < bid end; a claim that changes
\* the subscription or the caller's replay nonce violated none of them; a
\* subscription whose executor is still the placeholder is claimable by no
\* signer.
C24_ClaimOrder ==
    /\ [](\A c \in ClaimBidCalls :
            /\ AuthenticClaim(c)
                 => claimbid_err(c)
                      = ClaimVerdict(subs[c.sub_state], c.bid_winner, now)
            /\ subs[c.sub_state].executor = SYSTEM_PROGRAM
                 => /\ claimbid_err(c) # "Ok"
                    /\ claimbid_err([c EXCEPT !.bid_winner = SYSTEM_PROGRAM,
                                              !.bid_winner_signer = FALSE])
                         # "Ok")
    /\ [][\A a \in SubAddrs, w \in Workers :
            (last'.op = "ClaimBid" /\ last'.sub = a /\ last'.who = w
             /\ (subs'[a] # subs[a] \/ bidders'[w] # bidders[w]))
               => ClaimVerdict(subs[a], w, now) = "Ok"]_vars

\* an authenticated claim violates all of closed, assigned, executor and
\* deadline at once and is answered with the first of them
C24_Reached ==
    \E c \in ClaimBidCalls :
       /\ AuthenticClaim(c)
       /\ subs[c.sub_state].closed
       /\ subs[c.sub_state].is_assigned
       /\ subs[c.sub_state].executor # c.bid_winner
       /\ now > subs[c.sub_state].bid_endtime + 300
       /\ claimbid_err(c) = "SubScriptionClosed"


\* the error the four guards of a report give, in the stated order; "window"
\* when all of them pass and the clock is read
ReportVerdict(sub, caller) ==
    IF sub.closed THEN "SubScriptionClosed"
    ELSE IF ~sub.is_assigned THEN "BidAlreadyClaimed"
    ELSE IF sub.executor # caller THEN "UnAuthToClaimBid"
    ELSE IF sub.restart THEN "RestartPhase"
    ELSE "window"

\* C25 -- ReportWork guards: an authenticated report returns
\* SubScriptionClosed on a closed subscription, else BidAlreadyClaimed on an
\* unassigned one, else UnAuthToClaimBid for a caller who is not the executor,
\* else RestartPhase in restart mode, whatever the clock says; a report that
\* changes anything was made by the recorded executor of an assigned, open,
\* non-restart subscription.
C25_ReportGuards ==
    /\ [](\A c \in ReportWorkCalls :
            AuthenticReport(c)
              => LET v == ReportVerdict(subs[c.sub_state], c.bid_winner)
                 IN  IF v = "window"
                     THEN report_work_guard(c) = "Ok"
                     ELSE report_work_result(c).err = v)
    /\ [][(last'.op = "ReportWork"
           /\ (accounts' # accounts \/ history' # history))
            => ReportVerdict(subs[last'.sub], last'.who) = "window"]_vars

\* an authenticated report on a closed subscription in restart mode by a
\* worker who is not its executor, and one by the executor after the
\* deadline, both answered SubScriptionClosed
C25_Reached ==
    \E c, d \in ReportWorkCalls :
       /\ AuthenticReport(c)
       /\ AuthenticReport(d)
       /\ c.sub_state = d.sub_state
       /\ subs[c.sub_state].closed
       /\ subs[c.sub_state].is_assigned
       /\ subs[c.sub_state].restart
       /\ subs[c.sub_state].executor # c.bid_winner
       /\ subs[c.sub_state].executor = d.bid_winner
       /\ now > subs[c.sub_state].last_report_time + 900
       /\ report_work_result(c).err = "SubScriptionClosed"
       /\ report_work_result(d).err = "SubScriptionClosed"


\* the call c with other accounts in its metadata, consensus and
\* introspection slots
SlotVariants(c) ==
    {[c EXCEPT !.metadata = m, !.consensus = k, !.ix_sysvar = s] :
        m \in {MetadataPda, TreasuryPda}, k \in {ORACLE, MALLORY},
        s \in {IX_ID, ED25519_ID}}

\* the metadata record as it is, and with its flag cleared
MetadataRecords ==
    {metadata, [metadata EXCEPT !.exists = TRUE, !.is_initialized = FALSE]}

\* the error of the first failing step, in the stated order
AuthVerdict(md, c, w) ==
    IF c.metadata # MetadataPda THEN "InvalidPDA"
    ELSE IF ~md.is_initialized THEN "UninitializedAccount"
    ELSE IF c.consensus # md.vault_public_key THEN "InvalidConsesues"
    ELSE IF c.ix_sysvar # IX_ID THEN "UnsupportedSysvar"
    ELSE IF /\ c.ix = Attestations[c.consensus, w, bidders[w].nonce].ix
            /\ c.signature
                 = Attestations[c.consensus, w, bidders[w].nonce].signature
    THEN "Ok"
    ELSE "SigVerificationFailed"

\* what the verification answers to the call c of worker w
AuthResult(md, c, w) ==
    is_valid_consesues(md, c.ix_sysvar, c.consensus, c.metadata, c.ix,
                       raw_message(w, bidders[w].nonce), c.signature)

\* the account checks that precede the verification in each handler
BidAccounts(c) ==
    /\ c.bidder_signer
    /\ c.bidder_state = BidderPda(c.bidder)
    /\ subs[c.sub_state].is_initialized
    /\ bidders[c.bidder].is_initialized \/ c.system_program = SYSTEM_PROGRAM

ClaimAccounts(c) ==
    /\ c.bid_winner_signer
    /\ c.bid_winner_state = BidderPda(c.bid_winner)
    /\ bidders[c.bid_winner].is_initialized
    /\ subs[c.sub_state].is_initialized

ReportAccounts(c) ==
    /\ c.bid_winner_signer
    /\ c.bid_winner_state = BidderPda(c.bid_winner)
    /\ bidders[c.bid_winner].is_initialized
    /\ c.bid_winner_ata = c.bid_winner
    /\ c.program_treasury = TreasuryPda
    /\ c.program_ata = TreasuryPda
    /\ c.user_state = UserPda(c.user)
    /\ users[c.user].is_initialized
    /\ subs[c.sub_state].is_initialized

\* C26 -- Signature-verification step order: the verification answers with
\* the error of the first failing step in the order metadata address
\* (InvalidPDA), metadata not initialized (UninitializedAccount), consensus
\* differs from the oracle key (InvalidConsesues), wrong introspection account
\* (UnsupportedSysvar), layout and bytes (SigVerificationFailed); in Bid,
\* ClaimBid and ReportWork a failing verification decides the error whatever
\* the window, closed, assigned and executor of the subscription.
C26_VerificationOrder ==
    /\ \A c \in BidCalls : \A d \in SlotVariants(c) :
          /\ \A md \in MetadataRecords :
                md.exists => AuthResult(md, d, d.bidder)
                               = AuthVerdict(md, d, d.bidder)
          /\ (BidAccounts(d) /\ AuthResult(metadata, d, d.bidder) # "Ok")
                => bid_err(d) = AuthResult(metadata, d, d.bidder)
    /\ \A c \in ClaimBidCalls : \A d \in SlotVariants(c) :
          (ClaimAccounts(d) /\ AuthResult(metadata, d, d.bid_winner) # "Ok")
             => claimbid_err(d) = AuthResult(metadata, d, d.bid_winner)
    /\ \A c \in ReportWorkCalls : \A d \in SlotVariants(c) :
          (ReportAccounts(d) /\ AuthResult(metadata, d, d.bid_winner) # "Ok")
             => report_work_result(d).err
                  = AuthResult(metadata, d, d.bid_winner)

\* a report with a foreign consensus key and a foreign introspection account
\* on a closed subscription past its deadline, and a bid with a stale
\* attestation after the bid window, both answered by the verification
C26_Reached ==
    /\ \E c \in ReportWorkCalls : \E d \in SlotVariants(c) :
          /\ ReportAccounts(d)
          /\ d.metadata = MetadataPda
          /\ d.consensus = MALLORY
          /\ d.ix_sysvar # IX_ID
          /\ subs[d.sub_state].closed
          /\ subs[d.sub_state].executor # d.bid_winner
          /\ now > subs[d.sub_state].last_report_time + 900
          /\ report_work_result(d).err = "InvalidConsesues"
    /\ \E c \in BidCalls :
          /\ BidAccounts(c)
          /\ now >= subs[c.sub_state].bid_endtime
          /\ bid_err(c) = "SigVerificationFailed"


\* C27 -- Assignment freezes the auction result: a bid succeeds only before
\* the end of the bid window and a claim only from it on; once is_assigned is
\* true it stays true and no step changes the executor or the price; every
\* payment for a subscription is its price, the price it was claimed at.
C27_AssignmentFreezes ==
    [][/\ (last' # last /\ last'.op = "Bid")
            => now < subs[last'.sub].bid_endtime
       /\ (last' # last /\ last'.op = "ClaimBid")
            => now >= subs[last'.sub].bid_endtime
       /\ now' >= now
       /\ \A a \in SubAddrs :
             subs[a].is_assigned
                => /\ subs'[a].is_assigned
                   /\ subs'[a].executor = subs[a].executor
                   /\ subs'[a].rent = subs[a].rent
                   /\ (last' # last /\ last'.op = "ReportWork"
                       /\ last'.sub = a /\ last'.amount # 0)
                        => /\ last'.amount = subs[a].rent
                           /\ charged'[a.owner] = charged[a.owner] + subs[a].rent
                           /\ low_bid'[a] = low_bid[a]]_vars

\* a report has been paid at the price of the claim while an authentic lower
\* bid on the assigned subscription is refused
C27_Reached ==
    \E a \in SubAddrs :
       /\ subs[a].is_assigned
       /\ last.op = "ReportWork"
       /\ last.sub = a
       /\ last.amount = subs[a].rent
       /\ last.amount > 0
       /\ \E c \in BidCalls :
             /\ AuthenticBid(c)
             /\ c.sub_state = a
             /\ U64Lt(c.bid_amount, subs[a].rent)
             /\ bid_err(c) = "BidTimeExpired"


\* C28 -- A closed subscription is frozen: once closed is set no step changes
\* any field of the subscription; a bid inside the bid window changes neither
\* the executor nor the price of a closed subscription.
C28_ClosedFrozen ==
    [][\A a \in SubAddrs : subs[a].closed => subs'[a] = subs[a]]_vars

\* the last successful call is a bid on a subscription closed before it, and
\* the bidder is its executor at the price bid
C28_Reached ==
    /\ last.op = "Bid"
    /\ subs[last.sub].closed
    /\ subs[last.sub].executor = last.who
    /\ subs[last.sub].rent = last.amount
    /\ subs[last.sub].rent < subs[last.sub].max_rent
    /\ now < subs[last.sub].bid_endtime


\* the claim window of the subscription at a has passed without a claim
Missed(a) ==
    /\ subs[a].is_initialized
    /\ ~subs[a].is_assigned
    /\ now > subs[a].bid_endtime + 300

\* C29 -- A missed claim is permanent: if no claim has succeeded by
\* bid end + 300, the subscription stays unassigned for ever, every Bid,
\* ClaimBid and ReportWork on it fails, nothing is paid for it, and the only
\* step that changes it is a Close by its owner.
C29_MissedClaim ==
    /\ [](\A a \in SubAddrs :
            Missed(a)
              => /\ \A c \in BidCalls :
                       c.sub_state = a => bid_err(c) # "Ok"
                 /\ \A c \in ClaimBidCalls :
                       c.sub_state = a => claimbid_err(c) # "Ok"
                 /\ \A c \in ReportWorkCalls :
                       c.sub_state = a => report_work_result(c).err # "Ok")
    /\ [][\A a \in SubAddrs :
            Missed(a)
              => /\ Missed(a)'
                 /\ ~(last' # last /\ last'.sub = a /\ last'.op \in AuthOps)
                 /\ charged'[a.owner] = charged[a.owner]
                 /\ \/ subs'[a] = subs[a]
                    \/ /\ last'.op = "CloseSub"
                       /\ last'.who = a.owner
                       /\ subs'[a] = [subs[a] EXCEPT !.closed = TRUE]]_vars

\* after the claim window the owner has closed the subscription won by a
\* worker; an authentic lower bid is answered BidTimeExpired and the
\* executor's authentic report SubScriptionClosed
C29_Reached ==
    \E a \in SubAddrs :
       /\ Missed(a)
       /\ subs[a].executor \in Workers
       /\ last.op = "CloseSub"
       /\ last.sub = a
       /\ subs[a].closed
       /\ \E c \in BidCalls :
             /\ AuthenticBid(c) /\ c.sub_state = a
             /\ U64Lt(c.bid_amount, subs[a].rent)
             /\ bid_err(c) = "BidTimeExpired"
       /\ \E c \in ReportWorkCalls :
             /\ AuthenticReport(c) /\ c.sub_state = a
             /\ c.bid_winner = subs[a].executor
             /\ report_work_result(c).err = "SubScriptionClosed"


\* what the paid settlements of the subscriptions of u add up to, each counted
\* by the work nonce at the price of the subscription
SettledOf(u) ==
    SumOver([a \in SubAddrs |->
               IF a.owner = u THEN subs[a].nonce * subs[a].rent ELSE 0],
            SubAddrs)

\* C30 -- Work-nonce bookkeeping: the work nonce counts the paid settlements
\* of a subscription (it starts at 0 and moves only by one, in a paid report);
\* what has been debited from the owner's escrow for it is the work nonce
\* times the price at claim time; the nonce is 0 while the subscription is
\* unassigned; the nonce and last_report_time never decrease, and
\* last_report_time changes only in a successful claim or a paid settlement.
C30_NonceBookkeeping ==
    /\ [](/\ \A a \in SubAddrs : ~subs[a].is_assigned => subs[a].nonce = 0
          /\ \A u \in Subscribers :
                /\ charged[u] = SettledOf(u)
                /\ deposited[u] - users[u].balance = charged[u])
    /\ [][\A a \in SubAddrs :
            LET paid == /\ last' # last
                        /\ last'.op = "ReportWork"
                        /\ last'.sub = a
                        /\ last'.amount # 0
                claimed == /\ last' # last
                           /\ last'.op = "ClaimBid"
                           /\ last'.sub = a
            IN  /\ subs'[a].nonce = subs[a].nonce + (IF paid THEN 1 ELSE 0)
                /\ paid => /\ last'.amount = subs[a].rent
                           /\ users'[a.owner].balance
                                = users[a.owner].balance - subs[a].rent
                           /\ subs'[a].last_report_time = now
                /\ subs'[a].last_report_time >= subs[a].last_report_time
                /\ subs'[a].last_report_time # subs[a].last_report_time
                      => paid \/ claimed]_vars

\* one settlement has been paid and a later report, refused payment for its
\* nonce, has left the work nonce and last_report_time where they were
C30_Reached ==
    \E a \in SubAddrs :
       /\ subs[a].nonce = 1
       /\ charged[a.owner] = subs[a].rent
       /\ last.op = "ReportWork"
       /\ last.sub = a
       /\ last.amount = 0
       /\ subs[a].restart
       /\ subs[a].last_report_time < now
       /\ subs[a].last_report_time > subs[a].bid_endtime + 300


\* the step is a paid settlement for the subscription at a
PaidStep(a) ==
    /\ last' # last
    /\ last'.op = "ReportWork"
    /\ last'.sub = a
    /\ last'.amount # 0

\* C31 -- Payment rate limit: a claim starts the count at its instant
\* (last_report_time = now, work nonce 0); every paid settlement comes at
\* least 600 and at most 900 after the claim or the paid settlement before it
\* and becomes the new reference instant, which nothing else moves; so after
\* n paid settlements at least 600 * n has passed since the claim, which was
\* not before the end of the bid window.
C31_RateLimit ==
    /\ [](\A a \in SubAddrs :
            subs[a].is_assigned
              => /\ subs[a].last_report_time <= now
                 /\ 600 * subs[a].nonce
                      <= subs[a].last_report_time - subs[a].bid_endtime)
    /\ [][\A a \in SubAddrs :
            /\ (last' # last /\ last'.op = "ClaimBid" /\ last'.sub = a)
                 => /\ subs'[a].last_report_time = now
                    /\ subs'[a].nonce = 0
            /\ PaidStep(a)
                 => /\ subs[a].is_assigned
                    /\ now >= subs[a].last_report_time + 600
                    /\ now <= subs[a].last_report_time + 900
                    /\ subs'[a].last_report_time = now
                    /\ subs'[a].nonce = subs[a].nonce + 1
            /\ (subs[a].is_assigned /\ ~PaidStep(a))
                 => /\ subs'[a].last_report_time = subs[a].last_report_time
                    /\ subs'[a].nonce = subs[a].nonce]_vars

\* a second settlement has just been paid, 600 after the first, which was
\* paid 600 after the claim
C31_Reached ==
    \E a \in SubAddrs :
       /\ last.op = "ReportWork"
       /\ last.sub = a
       /\ last.amount = subs[a].rent
       /\ subs[a].nonce = 2
       /\ subs[a].last_report_time = now
       /\ now = subs[a].bid_endtime + 1200
       /\ earned[subs[a].executor] = 2 * subs[a].rent
       /\ users[a.owner].balance = 2 * Wallet - 2 * subs[a].rent


\* the escrow balances are amounts of tokens that exist
ValidBalances ==
    \A u \in Users :
       users[u].balance >= 0 /\ users[u].balance <= SumOver(tokens, TokenOwners)

\* C32 -- Treasury conservation: the treasury holds exactly the sum of the
\* subscribers' escrow balances; a paid settlement is covered by the balance
\* of the subscription's owner, so it leaves the other subscribers' balances
\* covered by the treasury; no report fails for lack of treasury funds.
C32_TreasuryConservation ==
    /\ [](/\ ValidBalances
          /\ tokens[TreasuryPda]
               = SumOver([u \in Users |-> users[u].balance], Users)
          /\ \A c \in ReportWorkCalls :
                report_work_result(c).err # "InsufficientFunds")
    /\ [][\A a \in SubAddrs :
            PaidStep(a)
              => /\ ~U64Lt(users[a.owner].balance, last'.amount)
                 /\ \A u \in Users \ {a.owner} :
                       /\ users'[u].balance = users[u].balance
                       /\ users'[u].balance <= tokens'[TreasuryPda]]_vars

\* a settlement has been paid for u1, whose deposits do not cover what has
\* been charged to them, out of the tokens u2 deposited: the treasury holds
\* less than the balance of u2
C32_Reached ==
    /\ last.op = "ReportWork"
    /\ last.sub.owner = "u1"
    /\ last.amount > 0
    /\ charged["u1"] > deposited["u1"]
    /\ users["u2"].balance = deposited["u2"]
    /\ tokens[TreasuryPda] < users["u2"].balance


\* C33 -- Payout binding: a paid settlement for a subscription is made by a
\* call of its recorded executor, moves the price from the treasury to the
\* executor's token account and to no other, and debits the balance of the
\* subscriber from whose key and the stored id the subscription's address
\* derives and of no other; a report naming another subscriber, another
\* worker's token account, or made by another worker than the executor, fails.
C33_PayoutBinding ==
    /\ [](\A c \in ReportWorkCalls :
            (\/ c.user # c.sub_state.owner
             \/ c.bid_winner_ata # c.bid_winner
             \/ subs[c.sub_state].executor # c.bid_winner)
               => report_work_result(c).err # "Ok")
    /\ [][\A a \in SubAddrs :
            PaidStep(a)
              => /\ last'.who = subs[a].executor
                 /\ SubPda(a.owner, subs[a].id) = a
                 /\ tokens' = [tokens EXCEPT
                                  ![TreasuryPda] = @ - last'.amount,
                                  ![subs[a].executor] = @ + last'.amount]
                 /\ users' = [users EXCEPT
                                 ![a.owner].balance = @ - last'.amount]
                 /\ earned' = [earned EXCEPT
                                  ![subs[a].executor] = @ + last'.amount]]_vars

\* a settlement has been paid to the executor while another subscriber holds
\* a balance and another worker is registered; the same report naming that
\* subscriber is answered InvalidPDA and the one naming that worker's token
\* account InvalidAccountOwner
C33_Reached ==
    \E a \in SubAddrs :
       /\ last.op = "ReportWork"
       /\ last.sub = a
       /\ last.amount > 0
       /\ last.who = subs[a].executor
       /\ tokens[last.who] = last.amount
       /\ \E c \in ReportWorkCalls :
             /\ c.sub_state = a
             /\ c.bid_winner = subs[a].executor
             /\ c.user # a.owner
             /\ users[c.user].balance > 0
             /\ report_work_result(c).err = "InvalidPDA"
       /\ \E c \in ReportWorkCalls :
             /\ c.sub_state = a
             /\ c.bid_winner = subs[a].executor
             /\ c.bid_winner_ata # c.bid_winner
             /\ bidders[c.bid_winner_ata].is_initialized
             /\ report_work_result(c).err = "InvalidAccountOwner"


\* what the verification answers when worker w presents, in the genuine
\* slots, the oracle's attestation over w || m
AttVerdict(w, m) ==
    is_valid_consesues(metadata, IX_ID, ORACLE, MetadataPda,
                       Attestations[ORACLE, w, m].ix,
                       raw_message(w, bidders[w].nonce),
                       Attestations[ORACLE, w, m].signature)

\* the call presents the oracle's attestation over its caller and c.att in
\* the genuine slots
GenuineCall(c) ==
    /\ c.consensus = ORACLE
    /\ c.metadata = MetadataPda
    /\ c.ix_sysvar = IX_ID

\* the verdict as a function of the registry metadata, the caller's stored
\* replay nonce and the nonce the attestation covers, and of nothing else
BoundVerdict(md, stored, m) ==
    IF ~md.exists THEN "Panic"
    ELSE IF ~md.is_initialized THEN "UninitializedAccount"
    ELSE IF md.vault_public_key # ORACLE THEN "InvalidConsesues"
    ELSE IF m = stored THEN "Ok"
    ELSE "SigVerificationFailed"

\* C34 -- Attestations are bound to (worker, nonce) only: the verdict on the
\* oracle's attestation over w || m is a function of the registry metadata
\* and of w's stored replay nonce alone (accepted exactly when m is that
\* nonce), so two states that agree on these give the same verdict; Bid,
\* ClaimBid and ReportWork all answer by it, for every subscription, bid
\* amount and work nonce; a successful authenticated call presents the
\* attestation over the caller's stored nonce and moves that nonce on, and an
\* attestation that has been used is refused.
C34_AttestationBinding ==
    /\ [](/\ \A w \in Workers, m \in 0 .. MaxNonce :
                /\ AttVerdict(w, m)
                     = BoundVerdict(metadata, bidders[w].nonce, m)
                /\ m \in used[w] => AttVerdict(w, m) # "Ok"
          /\ \A c \in BidCalls :
                (GenuineCall(c) /\ BidAccounts(c))
                  => LET v == AttVerdict(c.bidder, c.att)
                     IN  IF v = "Ok"
                         THEN bid_err(c) \in {"Ok", "BidTimeExpired"}
                         ELSE bid_err(c) = v
          /\ \A c \in ClaimBidCalls :
                (GenuineCall(c) /\ ClaimAccounts(c))
                  => LET v == AttVerdict(c.bid_winner, c.att)
                     IN  IF v = "Ok"
                         THEN claimbid_err(c)
                                = ClaimVerdict(subs[c.sub_state],
                                               c.bid_winner, now)
                         ELSE claimbid_err(c) = v
          /\ \A c \in ReportWorkCalls :
                (/\ GenuineCall(c)
                 /\ ReportAccounts(c)
                 /\ c.sub_state = SubPda(c.user, subs[c.sub_state].id))
                  => LET v == AttVerdict(c.bid_winner, c.att)
                     IN  IF v = "Ok"
                         THEN report_work_guard(c)
                                \in {"Ok", ReportVerdict(subs[c.sub_state],
                                                         c.bid_winner)}
                         ELSE report_work_guard(c) = v)
    /\ [][\A w \in Workers :
            (last' # last /\ last'.op \in AuthOps /\ last'.who = w)
               => /\ last'.att = bidders[w].nonce
                  /\ AttVerdict(w, bidders[w].nonce) = "Ok"
                  /\ bidders'[w].nonce = bidders[w].nonce + 1]_vars

\* w has claimed with the attestation over its nonce n - 1; its attestation
\* over n passes the verification in a bid, refused for the window only, and
\* in a report with a work nonce that is not the stored one, which succeeds
C34_Reached ==
    \E w \in Workers :
       /\ last.op = "ClaimBid"
       /\ last.who = w
       /\ last.att = bidders[w].nonce - 1
       /\ AttVerdict(w, last.att) = "SigVerificationFailed"
       /\ \E c \in BidCalls :
             /\ c.bidder = w /\ c.att = bidders[w].nonce /\ GenuineCall(c)
             /\ U64Lt(c.bid_amount, subs[c.sub_state].rent)
             /\ subs[c.sub_state].is_assigned
             /\ bid_err(c) = "BidTimeExpired"
       /\ \E c \in ReportWorkCalls :
             /\ c.bid_winner = w /\ c.att = bidders[w].nonce /\ GenuineCall(c)
             /\ c.nonce # subs[c.sub_state].nonce
             /\ now >= subs[c.sub_state].last_report_time + 600
             /\ report_work_result(c).err = "Ok"

=============================================================================
